---- MODULE Spec2Model ----
(***************************************************************************)
(* Model of the stock-momentum-analyzer batch pipelines and indicator      *)
(* engine:                                                                 *)
(*   TW_momentun.py  process_stock_data / calculate_technical_indicators   *)
(*   US_momentum.py  process_us_stock_data /                               *)
(*                   calculate_us_technical_indicators                     *)
(*   app.py          process_stock_data / calculate_technical_indicators   *)
(*                                                                         *)
(* Spec       : one run of a batch entry point over an instrument list.    *)
(* FairSpec   : Spec with the fairness of a running sequential program.    *)
(* SpecEngine : the indicator engine applied to one bar series.            *)
(*                                                                         *)
(* Floating point values are modelled as exact rationals with a NaN flag;  *)
(* comparisons with NaN are false, as in Python and numpy.                 *)
(***************************************************************************)
EXTENDS Integers, Sequences, FiniteSets, TLC

VARIABLES
    variant,      \* which entry point runs: "TW", "US" or "APP"
    listSource,   \* "ok" or "unreadable": can the instrument list be read
    tickers,      \* the instrument list: a sequence of ticker kinds
    pc,           \* position of the running function
    i,            \* 1-based index of the for loop over the tickers
    phase,        \* per instrument: where it is in its pipeline
    log,          \* per instrument: what its fetch and its processing did
    df,           \* the bar series the current fetch returned
    window,       \* APP: are start_day / stock_end_date bound ("defined"/"undefined")
    results,      \* the list `results` of output records
    ret,          \* what the entry point returned: "pending", "frame", "None"
    raised,       \* an exception left the entry point
    diag,         \* a batch-level diagnostic was issued (print / st.error)
    ta,           \* SpecEngine: what the TA-Lib calls returned for df
    indicators,   \* SpecEngine: the dict calculate_*_technical_indicators returned
    env,          \* what surrounds one evaluation: the clock, the pandas in use
    local         \* the local variables of the other functions, by name

vars == <<variant, listSource, tickers, pc, i, phase, log, df, window,
          results, ret, raised, diag, ta, indicators, env, local>>

-----------------------------------------------------------------------------
(* Bounds of the model *)

\* longest instrument list
MaxInstruments == 3
\* bar series lengths go up to MinBars + MaxExtraBars
MaxExtraBars == 0

(* Program constants *)

\* `len(df) < 60`
MinBars == 60

-----------------------------------------------------------------------------
(* Numbers: exact rationals with a NaN flag *)

NaN == [nan |-> TRUE, num |-> 0, den |-> 1]

F(x) == [nan |-> FALSE, num |-> x, den |-> 1]

Rat(n, d) == [nan |-> FALSE, num |-> n, den |-> d]

IsNaN(x) == x.nan

\* Python / numpy comparison: any comparison with NaN is False
Gt(a, b) == ~a.nan /\ ~b.nan /\ a.num * b.den > b.num * a.den

Lt(a, b) == Gt(b, a)

Ge(a, b) == ~a.nan /\ ~b.nan /\ a.num * b.den >= b.num * a.den

Le(a, b) == Ge(b, a)

NumEq(a, b) == ~a.nan /\ ~b.nan /\ a.num * b.den = b.num * a.den

\* the infinities a float division by zero gives
Inf == [nan |-> FALSE, num |-> 1, den |-> 0]

NegInf == [nan |-> FALSE, num |-> -1, den |-> 0]

IsInf(x) == ~x.nan /\ x.den = 0

Abs(x) == IF x < 0 THEN -x ELSE x

RECURSIVE GCD(_, _)
GCD(a, b) == IF b = 0 THEN a ELSE GCD(b, a % b)

\* the same number in lowest terms with a positive denominator
Norm(x) ==
    IF x.nan \/ x.den = 0 THEN x
    ELSE LET g == GCD(Abs(x.num), Abs(x.den))
             sg == IF x.den < 0 THEN -1 ELSE 1
         IN  Rat(sg * (x.num \div g), sg * (x.den \div g))

\* (a / b - 1) * 100 in floating point: NaN in gives NaN, x / 0 is an infinity
\* and 0 / 0 is NaN (numpy floats do not raise)
PctOver(a, b) ==
    IF a.nan \/ b.nan \/ IsInf(a) \/ IsInf(b) THEN NaN
    ELSE IF b.num = 0
         THEN (IF a.num = 0 THEN NaN ELSE IF a.num * a.den > 0 THEN Inf ELSE NegInf)
         ELSE LET q == Norm(Rat(a.num * b.den, a.den * b.num))
              IN  Norm(Rat((q.num - q.den) * 100, q.den))

\* float arithmetic on these numbers: NaN and the infinities propagate
NegF(a) == IF a.nan THEN a ELSE [a EXCEPT !.num = -a.num]

SignOf(a) == IF a.num > 0 THEN 1 ELSE IF a.num < 0 THEN -1 ELSE 0

AddF(a, b) ==
    IF a.nan \/ b.nan THEN NaN
    ELSE IF IsInf(a) /\ IsInf(b) THEN (IF a.num = b.num THEN a ELSE NaN)
    ELSE IF IsInf(a) THEN a
    ELSE IF IsInf(b) THEN b
    ELSE LET g == GCD(Abs(a.den), Abs(b.den))
         IN  Norm(Rat(a.num * (b.den \div g) + b.num * (a.den \div g),
                      (a.den \div g) * b.den))

SubF(a, b) == AddF(a, NegF(b))

MulF(a, b) ==
    IF a.nan \/ b.nan THEN NaN
    ELSE IF IsInf(a) \/ IsInf(b)
         THEN (IF SignOf(a) * SignOf(b) = 0 THEN NaN
               ELSE IF SignOf(a) * SignOf(b) > 0 THEN Inf ELSE NegInf)
    ELSE LET x  == Norm(a)
             y  == Norm(b)
             g1 == GCD(Abs(x.num), y.den)
             g2 == GCD(Abs(y.num), x.den)
         IN  IF x.num = 0 \/ y.num = 0 THEN F(0)
             ELSE Rat((x.num \div g1) * (y.num \div g2),
                      (x.den \div g2) * (y.den \div g1))

\* a / b: x / 0 is an infinity, 0 / 0 is NaN, nothing raises
DivF(a, b) ==
    IF a.nan \/ b.nan THEN NaN
    ELSE IF IsInf(b) THEN (IF IsInf(a) THEN NaN ELSE F(0))
    ELSE IF b.num = 0
         THEN (IF SignOf(a) = 0 THEN NaN ELSE IF SignOf(a) > 0 THEN Inf ELSE NegInf)
    ELSE IF IsInf(a) THEN (IF SignOf(a) * SignOf(b) > 0 THEN Inf ELSE NegInf)
    ELSE MulF(a, Norm(Rat(b.den, b.num)))

\* round(x, 2): to the nearest hundredth, a tie going to the even one
Round2(x) ==
    IF x.nan \/ x.den = 0 THEN x
    ELSE LET y == Norm(x)
             w == y.num \div y.den
             f == (y.num % y.den) * 100
             q == w * 100 + f \div y.den
             r == f % y.den
             up == 2 * r > y.den \/ (2 * r = y.den /\ q % 2 = 1)
         IN  Norm(Rat(IF up THEN q + 1 ELSE q, 100))

-----------------------------------------------------------------------------
(* Bar series.  A DataFrame of n daily bars is held by its length and the   *)
(* bars that differ from a flat history: Close is BaseClose except at       *)
(* iloc[-4] (c4) and iloc[-1] (c1); Volume is BaseVolume except at          *)
(* iloc[-5:-1] (vprev, four bars) and iloc[-1] (vlast).  Indexes are the    *)
(* negative positions pandas' iloc takes.  `age` is the number of flat bars *)
(* that follow the c1 bar (the positions above are then lower by age); a    *)
(* negative age is the series cut that many bars before the c1 bar.         *)
(* `zeros` is the number of bars at the end whose Close is 0 (a degenerate  *)
(* series); it overrides the closes above.                                  *)

BaseClose == 100

\* a day's volume in shares
BaseVolume == 25000

EmptyDf == [n |-> 0, c4 |-> F(BaseClose), c1 |-> F(BaseClose),
            vprev |-> BaseVolume, vlast |-> F(BaseVolume), age |-> 0,
            zeros |-> 0]

\* df.empty
DfEmpty(d) == d.n = 0

\* df['Close'].iloc[idx], for -d.n <= idx <= -1
CloseAt(d, idx) ==
    IF idx >= -(d.zeros) THEN F(0)
    ELSE IF idx = -1 - d.age THEN d.c1
    ELSE IF idx = -4 - d.age THEN d.c4 ELSE F(BaseClose)

\* df['Volume'].iloc[idx], for -d.n <= idx <= -1
VolumeAt(d, idx) ==
    IF idx = -1 - d.age THEN d.vlast
    ELSE IF idx >= -5 - d.age /\ idx < -1 - d.age THEN F(d.vprev)
    ELSE F(BaseVolume)

\* the positions of series.iloc[-w:]: the last w bars, or all when fewer exist
LastBars(d, w) == {idx \in -w..-1 : -idx <= d.n}

\* safe_get_value(df['Close'], index): NaN on an empty series or an IndexError
safe_get_value_Close(d, index) ==
    IF d.n = 0 THEN NaN
    ELSE IF -index > d.n THEN NaN
    ELSE CloseAt(d, index)

\* the first position of series.iloc[-w:]
FirstOf(d, w) == IF w <= d.n THEN -w ELSE -(d.n)

\* the sum of the known closes at positions lo..-1
RECURSIVE SumClose(_, _)
SumClose(d, lo) ==
    IF lo > -1 THEN 0
    ELSE (IF IsNaN(CloseAt(d, lo)) THEN 0 ELSE CloseAt(d, lo).num)
         + SumClose(d, lo + 1)

\* the sum of the known volumes at positions lo..-1
RECURSIVE SumVolume(_, _)
SumVolume(d, lo) ==
    IF lo > -1 THEN 0
    ELSE (IF IsNaN(VolumeAt(d, lo)) THEN 0 ELSE VolumeAt(d, lo).num)
         + SumVolume(d, lo + 1)

\* df['Volume'].iloc[-w:].mean(): pandas skips NaN; NaN when nothing is left
VolumeMean(d, w) ==
    LET S == {idx \in LastBars(d, w) : ~IsNaN(VolumeAt(d, idx))}
    IN  IF S = {} THEN NaN
        ELSE Rat(SumVolume(d, FirstOf(d, w)), Cardinality(S))

\* some close at the positions up to idx is NaN (only the c4 and the c1 bar
\* of a series can be)
HasNaNClose(d, idx) ==
    \E j \in {-4 - d.age, -1 - d.age} :
        j >= -(d.n) /\ j <= idx /\ IsNaN(CloseAt(d, j))

\* talib.SMA(close_array, timeperiod)[-1]: NaN until `timeperiod` bars exist;
\* TA-Lib keeps a running total, so a NaN close makes every later value NaN
SMA_last(d, timeperiod) ==
    IF d.n < timeperiod THEN NaN
    ELSE IF HasNaNClose(d, -1) THEN NaN
    ELSE Rat(SumClose(d, -timeperiod), timeperiod)

\* talib.SMA(close_array, timeperiod)[idx]
SMA_at(d, timeperiod, idx) ==
    IF d.n + idx + 1 < timeperiod THEN NaN
    ELSE IF HasNaNClose(d, idx) THEN NaN
    ELSE Rat(SumClose(d, idx - timeperiod + 1) - SumClose(d, idx + 1),
             timeperiod)

-----------------------------------------------------------------------------
(* The environment of one evaluation.  today: how many years date.today()   *)
(* is past the year of the last bar of the series (0: the same year);       *)
(* pad: whether the installed pandas forward-fills in pct_change.  The      *)
(* external sources of one ticker, each with what it does when asked:       *)
(*   tenYear  the 10-year yf.download: raises, empty, or data with the      *)
(*            maximum of its Close column                                   *)
(*   info     yf.Ticker(t).info: "raise", "none" (empty) or "data"          *)
(*   revenue  quarterly_financials (US) / the revenue batch (app):          *)
(*            "raise", "none" or "data"                                     *)
(*   inst     the institutional batch (app): "none" or "data"               *)
(*   primary  the ".TW" download of classify_stock_code: "raise", "empty"   *)
(*            or "data"                                                     *)

\* no local variable is bound
NoLocals == <<>>

TenYearRaises == [kind |-> "raise", max |-> NaN]

TenYearEmpty == [kind |-> "empty", max |-> NaN]

TenYearData(m) == [kind |-> "data", max |-> m]

DefaultEnv ==
    [today |-> 0, pad |-> FALSE, tenYear |-> TenYearData(F(BaseClose + 6)),
     info |-> "data", revenue |-> "data", inst |-> "data",
     primary |-> "data"]

SeriesEnvs ==
    {[DefaultEnv EXCEPT !.today = t, !.pad = p] : t \in {0, 1}, p \in BOOLEAN}

-----------------------------------------------------------------------------
(* TA-Lib results.  RSI, MACD and STOCH are library calls; what they return *)
(* for a series is an input of the engine: the last MACD histogram value    *)
(* and the one before it, slowk[-1], slowd[-1] and rsi14[-1].               *)

\* macdhist[-1]: NaN, -0.5, 0, +0.3
HistLastVals == {NaN, Rat(-1, 2), F(0), Rat(3, 10)}

\* macdhist[-2]: NaN, -0.5, 0, +0.1
HistPrevVals == {NaN, Rat(-1, 2), F(0), Rat(1, 10)}

KDVals == {<<NaN, F(50)>>, <<F(50), NaN>>, <<F(40), F(50)>>,
           <<F(50), F(50)>>, <<F(60), F(50)>>}

RsiVals == {NaN, F(50), F(51)}

\* every last histogram value with every prior one, and with every K/D pair
\* and RSI (the prior value is read by macdhist_signal alone)
TaOutputs ==
    {[hist |-> h, hist_prev |-> hp, k5 |-> F(60), d5 |-> F(50),
      rsi14 |-> F(51), rsi5 |-> F(55)] :
        h \in HistLastVals, hp \in HistPrevVals}
    \cup
    {[hist |-> h, hist_prev |-> Rat(-1, 2), k5 |-> kd[1], d5 |-> kd[2],
      rsi14 |-> r, rsi5 |-> F(55)] :
        h \in HistLastVals, kd \in KDVals, r \in RsiVals}

DefaultTa == [hist |-> Rat(3, 10), hist_prev |-> Rat(-1, 2), k5 |-> F(60), d5 |-> F(50),
              rsi14 |-> F(51), rsi5 |-> F(55)]

-----------------------------------------------------------------------------
(* The indicator engine *)

\* the empty dict {}
EmptyDict == <<>>

\* indicators.get(key, default)
Get(ind, key, default) == IF key \in DOMAIN ind THEN ind[key] ELSE default

\* `if indicators:` - a dict is true iff it is not empty
Truthy(ind) == DOMAIN ind # {}

\* mutant: the gate tests only df.empty
TooShort_EmptyOnly(d) == DfEmpty(d)

\* `if df.empty or len(df) < 60: return {}`
TooShort(d) == DfEmpty(d) \/ d.n < MinBars

\* mutant: the prior histogram value is tested with <= 0
MacdhistSignal_PriorNotPositive(d, t) ==
    IF d.n >= 2 THEN Gt(t.hist, F(0)) /\ Le(t.hist_prev, F(0)) ELSE FALSE

\* macdhist_signal: (macdhist[-1] > 0 and macdhist[-2] < 0) if len(macdhist) >= 2
MacdhistSignal(d, t) ==
    IF d.n >= 2 THEN Gt(t.hist, F(0)) /\ Lt(t.hist_prev, F(0)) ELSE FALSE

\* mutant: only the last bar is looked at
Crossover_LastBarOnly(d) ==
    IF d.n >= 2 THEN Gt(SMA_at(d, 5, -1), SMA_at(d, 20, -1)) ELSE FALSE

\* mutant: a touch counts as a cross
Crossover_OrEqual(d) ==
    IF d.n >= 2
    THEN /\ Ge(SMA_at(d, 20, -2), SMA_at(d, 5, -2))
         /\ Ge(SMA_at(d, 5, -1), SMA_at(d, 20, -1))
    ELSE FALSE

\* crossover: ((ma20[-2] - ma5[-2]) > 0 and (ma5[-1] - ma20[-1]) > 0)
\* if len(ma5) >= 2 and len(ma20) >= 2 else False
Crossover(d) ==
    IF d.n >= 2
    THEN /\ Gt(SMA_at(d, 20, -2), SMA_at(d, 5, -2))
         /\ Gt(SMA_at(d, 5, -1), SMA_at(d, 20, -1))
    ELSE FALSE

\* the close pct_change works on: pandas before 3.0 forward-fills the NaN
\* closes first (fill_method='pad'), pandas 3.0 does not
RECURSIVE FilledClose(_, _, _)
FilledClose(d, idx, pad) ==
    IF ~pad \/ ~IsNaN(CloseAt(d, idx)) \/ idx <= -(d.n) THEN CloseAt(d, idx)
    ELSE FilledClose(d, idx - 1, pad)

\* df['Close'].pct_change(periods=periods).iloc[idx] * 100
PctChangeAt(d, periods, idx, pad) ==
    IF d.n + idx + 1 <= periods THEN NaN
    ELSE PctOver(FilledClose(d, idx, pad), FilledClose(d, idx - periods, pad))

\* df['Close'].pct_change(periods=periods).dropna().iloc[-1] * 100: the last
\* value that is not NaN, searched back from position idx; NaN when the
\* series is empty after dropna (every such series of the model has one)
RECURSIVE LastValidPctChange(_, _, _, _)
LastValidPctChange(d, periods, idx, pad) ==
    IF d.n + idx + 1 <= periods THEN NaN
    ELSE LET x == PctChangeAt(d, periods, idx, pad)
         IN  IF ~IsNaN(x) THEN x
             ELSE LastValidPctChange(d, periods, idx - 1, pad)

\* `float(x) if not np.isnan(x) else 0.0`
NanToZero(x) == IF IsNaN(x) THEN F(0) ELSE x

\* US / app: day_return, week_return (len(df) >= 5), month_return (len(df) >= 22)
DayReturnUS(d, e) == NanToZero(PctChangeAt(d, 1, -1, e.pad))

WeekReturnUS(d, e) ==
    IF d.n >= 5 THEN NanToZero(LastValidPctChange(d, 5, -1, e.pad)) ELSE F(0)

MonthReturnUS(d, e) ==
    IF d.n >= 22 THEN NanToZero(LastValidPctChange(d, 22, -1, e.pad)) ELSE F(0)

\* TW: day_return, week_return, month_return (NaN when too short)
DayReturnTW(d, e) == PctChangeAt(d, 1, -1, e.pad)

WeekReturnTW(d, e) ==
    IF d.n >= 5 THEN LastValidPctChange(d, 5, -1, e.pad) ELSE NaN

MonthReturnTW(d, e) ==
    IF d.n >= 22 THEN LastValidPctChange(d, 22, -1, e.pad) ELSE NaN

\* len(df[df.index >= f'{current_year}-01-01']): the c4 bar is the first
\* trading day of the year the series ends in; `today` is the number of
\* years date.today() is past that year
YtdBars(d, today) ==
    IF today # 0 \/ d.age < -4 THEN 0
    ELSE IF 4 + d.age > d.n THEN d.n ELSE 4 + d.age

\* ytd_return: round(((current_close - first_close) / first_close) * 100, 2)
\* when the year has two bars and first_close > 0, else 0.0
YtdReturn(d, e) ==
    LET bars == YtdBars(d, e.today)
    IN  IF bars >= 2
        THEN LET first_close   == CloseAt(d, -bars)
                 current_close == CloseAt(d, -1)
             IN  IF Gt(first_close, F(0))
                 THEN Round2(PctOver(current_close, first_close))
                 ELSE F(0)
        ELSE F(0)

\* the position of the NaN volume of df, 0 when every volume is known
VolNaNPos(d) ==
    IF IsNaN(d.vlast) /\ d.age >= 0 /\ 1 + d.age <= d.n THEN -1 - d.age ELSE 0

\* len(df['Volume'].dropna())
DroppedLen(d) == IF VolNaNPos(d) # 0 THEN d.n - 1 ELSE d.n

\* the position in df of volume_series.iloc[k], volume_series = df['Volume'].dropna()
DroppedAt(d, k) ==
    IF VolNaNPos(d) # 0 /\ VolNaNPos(d) >= k THEN k - 1 ELSE k

\* the sum of volume_series.iloc[lo], ..., volume_series.iloc[hi]
RECURSIVE SumDropped(_, _, _)
SumDropped(d, lo, hi) ==
    IF lo > hi THEN 0
    ELSE VolumeAt(d, DroppedAt(d, lo)).num + SumDropped(d, lo + 1, hi)

\* vol_20_mean = volume_series.iloc[-21:-1].mean() if len(volume_series) >= 21
\*               else volume_series.iloc[-20:].mean()
Vol20Mean(d) ==
    IF DroppedLen(d) >= 21 THEN Rat(SumDropped(d, -21, -2), 20)
    ELSE Rat(SumDropped(d, -20, -1), 20)

\* the unrounded vol_change of the US / app engine; NaN stands for "not
\* computed": the branches that store 0.0 and False
VolChangeUS(d) ==
    IF d.n >= 20 /\ DroppedLen(d) >= 20
    THEN LET last_volume == VolumeAt(d, DroppedAt(d, -1))
             vol_20_mean == Vol20Mean(d)
         IN  IF Gt(vol_20_mean, F(0)) /\ Gt(last_volume, F(0))
             THEN PctOver(last_volume, vol_20_mean)
             ELSE NaN
    ELSE NaN

\* indicators['volume_change'] = round(vol_change, 2), or 0.0
VolumeChangeUS(d) ==
    LET vol_change == VolChangeUS(d)
    IN  IF IsNaN(vol_change) THEN F(0) ELSE Round2(vol_change)

\* indicators['vc_30'] = bool(vol_change > 30), or False
Vc30US(d) ==
    LET vol_change == VolChangeUS(d)
    IN  IF IsNaN(vol_change) THEN FALSE ELSE Gt(vol_change, F(30))

\* TW_momentun.py: vol_change = (safe_get_value(df['Volume'])
\*                               / df['Volume'].iloc[-20:].mean() - 1) * 100
VolumeChangeTW(d) == PctOver(VolumeAt(d, -1), VolumeMean(d, 20))

\* indicators['vc_30'] = vol_change > 30
Vc30TW(d) == Gt(VolumeChangeTW(d), F(30))

\* volume_5_mean, volume_above_5ma: `if len(df) >= 5` else 0.0, False
Volume5Mean(d) == IF d.n >= 5 THEN VolumeMean(d, 5) ELSE F(0)

VolumeAbove5MA(d) ==
    IF d.n >= 5 THEN Gt(VolumeAt(d, -1), VolumeMean(d, 5)) ELSE FALSE

\* volume_20_mean, volume_below_20ma: `if len(df) >= 20` else 0.0, False
Volume20Mean(d) == IF d.n >= 20 THEN VolumeMean(d, 20) ELSE F(0)

VolumeBelow20MA(d) ==
    IF d.n >= 20 THEN Lt(VolumeAt(d, -1), VolumeMean(d, 20)) ELSE FALSE

\* mutant: the RSI condition is left out of the conjunction
ShortUptrendMomentum_NoRsi(ind) ==
    /\ Gt(Get(ind, "close", NaN), Get(ind, "ma5", NaN))
    /\ Get(ind, "volume_above_5ma", FALSE)
    /\ Gt(Get(ind, "k5", NaN), Get(ind, "d5", NaN))
    /\ Gt(Get(ind, "macdhist", NaN), F(0))

\* mutant: one true condition is enough
ShortUptrendMomentum_AnyCondition(ind) ==
    \/ Gt(Get(ind, "close", NaN), Get(ind, "ma5", NaN))
    \/ Get(ind, "volume_above_5ma", FALSE)
    \/ Gt(Get(ind, "k5", NaN), Get(ind, "d5", NaN))
    \/ Gt(Get(ind, "rsi14", NaN), F(50))
    \/ Gt(Get(ind, "macdhist", NaN), F(0))

\* short_uptrend_momentum: condition1 and ... and condition5
ShortUptrendMomentum(ind) ==
    LET condition1 ==
            IF ~IsNaN(Get(ind, "close", NaN)) /\ ~IsNaN(Get(ind, "ma5", NaN))
            THEN Gt(Get(ind, "close", F(0)), Get(ind, "ma5", F(0))) ELSE FALSE
        condition2 == Get(ind, "volume_above_5ma", FALSE)
        condition3 ==
            IF ~IsNaN(Get(ind, "k5", NaN)) /\ ~IsNaN(Get(ind, "d5", NaN))
            THEN Gt(Get(ind, "k5", F(0)), Get(ind, "d5", F(0))) ELSE FALSE
        condition4 ==
            IF ~IsNaN(Get(ind, "rsi14", NaN))
            THEN Gt(Get(ind, "rsi14", F(0)), F(50)) ELSE FALSE
        condition5 ==
            IF ~IsNaN(Get(ind, "macdhist", NaN))
            THEN Gt(Get(ind, "macdhist", F(0)), F(0)) ELSE FALSE
    IN  condition1 /\ condition2 /\ condition3 /\ condition4 /\ condition5

\* mutant: the volume condition is taken from the 5-day mean
ShortDowntrendSignal_Vol5(ind) ==
    /\ Lt(Get(ind, "close", NaN), Get(ind, "ma5", NaN))
    /\ ~Get(ind, "volume_above_5ma", FALSE)
    /\ Lt(Get(ind, "k5", NaN), Get(ind, "d5", NaN))
    /\ Lt(Get(ind, "macdhist", NaN), F(0))

\* short_downtrend_signal: condition1_down and ... and condition4_down
ShortDowntrendSignal(ind) ==
    LET condition1_down ==
            IF ~IsNaN(Get(ind, "close", NaN)) /\ ~IsNaN(Get(ind, "ma5", NaN))
            THEN Lt(Get(ind, "close", F(0)), Get(ind, "ma5", F(0))) ELSE FALSE
        condition2_down == Get(ind, "volume_below_20ma", FALSE)
        condition3_down ==
            IF ~IsNaN(Get(ind, "k5", NaN)) /\ ~IsNaN(Get(ind, "d5", NaN))
            THEN Lt(Get(ind, "k5", F(0)), Get(ind, "d5", F(0))) ELSE FALSE
        condition4_down ==
            IF ~IsNaN(Get(ind, "macdhist", NaN))
            THEN Lt(Get(ind, "macdhist", F(0)), F(0)) ELSE FALSE
    IN  condition1_down /\ condition2_down /\ condition3_down /\ condition4_down

\* the guard of the 3-day decline: four bars, both closes known, close[-4] > 0
DeclineDefined(d) ==
    /\ d.n >= 4
    /\ ~IsNaN(safe_get_value_Close(d, -4))
    /\ ~IsNaN(safe_get_value_Close(d, -1))
    /\ Gt(safe_get_value_Close(d, -4), F(0))

\* decline_3days = ((close_3days_ago - current_close) / close_3days_ago) * 100, else 0
Decline3Days(d) ==
    IF DeclineDefined(d)
    THEN LET close_3days_ago == safe_get_value_Close(d, -4)
             current_close   == safe_get_value_Close(d, -1)
         IN  Rat((close_3days_ago.num * current_close.den
                    - current_close.num * close_3days_ago.den) * 100,
                 current_close.den * close_3days_ago.num)
    ELSE F(0)

\* mutant: a decline of exactly 5 counts
Condition3Inst_AtLeast(d) ==
    IF DeclineDefined(d) THEN Ge(Decline3Days(d), F(5)) ELSE FALSE

\* condition3_inst = decline_3days > 5, False when the decline is not defined
Condition3Inst(d) ==
    IF DeclineDefined(d) THEN Gt(Decline3Days(d), F(5)) ELSE FALSE

\* institutional_selling: condition1_inst and condition2_inst and condition3_inst
InstitutionalSelling(ind, d) ==
    LET condition1_inst ==
            IF ~IsNaN(Get(ind, "close", NaN)) /\ ~IsNaN(Get(ind, "ma20", NaN))
            THEN Lt(Get(ind, "close", F(0)), Get(ind, "ma20", F(0))) ELSE FALSE
        condition2_inst == Get(ind, "volume_above_5ma", FALSE)
    IN  condition1_inst /\ condition2_inst /\ Condition3Inst(d)

\* US_momentum.calculate_us_technical_indicators and app.calculate_technical_indicators
\* (the two bodies are the same); t is what TA-Lib returned for d, e the
\* clock and the pandas the call runs with
calculate_us_technical_indicators(d, t, e) ==
    IF TooShort(d) THEN EmptyDict
    ELSE LET base == [close             |-> safe_get_value_Close(d, -1),
                      rsi5              |-> t.rsi5,
                      rsi14             |-> t.rsi14,
                      macdhist          |-> t.hist,
                      macdhist_signal   |-> MacdhistSignal(d, t),
                      ma5               |-> SMA_last(d, 5),
                      ma20              |-> SMA_last(d, 20),
                      ma60              |-> SMA_last(d, 60),
                      crossover         |-> Crossover(d),
                      volume_change     |-> VolumeChangeUS(d),
                      vc_30             |-> Vc30US(d),
                      day_return        |-> DayReturnUS(d, e),
                      week_return       |-> WeekReturnUS(d, e),
                      month_return      |-> MonthReturnUS(d, e),
                      ytd_return        |-> YtdReturn(d, e),
                      k5                |-> t.k5,
                      d5                |-> t.d5,
                      volume_5_mean     |-> Volume5Mean(d),
                      volume_above_5ma  |-> VolumeAbove5MA(d),
                      volume_20_mean    |-> Volume20Mean(d),
                      volume_below_20ma |-> VolumeBelow20MA(d)]
         IN  base @@
             [short_uptrend_momentum |-> ShortUptrendMomentum(base),
              short_downtrend_signal |-> ShortDowntrendSignal(base),
              decline_3days          |-> Decline3Days(d),
              institutional_selling  |-> InstitutionalSelling(base, d)]

\* TW_momentun.calculate_technical_indicators: no K/D, volume means or signals
calculate_technical_indicators(d, t, e) ==
    IF TooShort(d) THEN EmptyDict
    ELSE [close           |-> safe_get_value_Close(d, -1),
          rsi5            |-> t.rsi5,
          rsi14           |-> t.rsi14,
          macdhist        |-> t.hist,
          macdhist_signal |-> MacdhistSignal(d, t),
          ma5             |-> SMA_last(d, 5),
          ma20            |-> SMA_last(d, 20),
          ma60            |-> SMA_last(d, 60),
          crossover       |-> Crossover(d),
          volume_change   |-> VolumeChangeTW(d),
          vc_30           |-> Vc30TW(d),
          day_return      |-> DayReturnTW(d, e),
          week_return     |-> WeekReturnTW(d, e),
          month_return    |-> MonthReturnTW(d, e)]

\* the engine each entry point calls
Engine(v, d, t, e) ==
    IF v = "TW" THEN calculate_technical_indicators(d, t, e)
    ELSE calculate_us_technical_indicators(d, t, e)

-----------------------------------------------------------------------------
(* The batch runner: process_stock_data (TW_momentun.py, app.py) and        *)
(* process_us_stock_data (US_momentum.py).                                  *)
(*                                                                          *)
(* pc: "start"    before the instrument list is read                        *)
(*     "loop"     at the head of `for i, ticker in enumerate(...)`          *)
(*     "fetching" inside yf.download for ticker i                           *)
(*     "fetched"  the download returned or raised                           *)
(*     "done"     the function returned or raised                           *)
(* phase[j] is instrument j's state: Pending, Fetching, FetchFailure,       *)
(* InsufficientData, Computing, Skipped, Recorded.                          *)

Variants == {"TW", "US", "APP"}

\* a ticker is one whose cleaned code is 4 digits (NNNN.TW), or anything else
\* (an index such as ^TWII; NNNN.TWO, which the cleaning leaves as NNNNO)
Kinds == {"TW4", "OTHER"}

TickerLists(K) == UNION {[1..n -> K] : n \in 0..MaxInstruments}

Terminal == {"Skipped", "Recorded"}

Active == {"Fetching", "FetchFailure", "InsufficientData", "Computing"}

NoLog == [fetch |-> "none", n |-> 0, compute |-> "none"]

\* the series a price fetch can return: empty, one bar short, exactly enough
BatchDfs ==
    {EmptyDf} \cup
    {[n |-> len, c4 |-> F(BaseClose), c1 |-> F(BaseClose + 6),
      vprev |-> BaseVolume, vlast |-> F(2 * BaseVolume), age |-> 0,
      zeros |-> 0] :
        len \in {MinBars - 1, MinBars}}

\* taiwan_stock_codes: the cleaned codes that are 4 digits
taiwan_stock_codes(ts) == {j \in 1..Len(ts) : ts[j] = "TW4"}

\* mutant: the runner checks only df.empty
PhaseAfterFetch_NoLengthCheck(d) ==
    IF DfEmpty(d) THEN "FetchFailure" ELSE "Computing"

\* `if df.empty: continue`, `if len(df) < 60: continue`, else the engine runs
PhaseAfterFetch(d) ==
    IF DfEmpty(d) THEN "FetchFailure"
    ELSE IF d.n < MinBars THEN "InsufficientData"
    ELSE "Computing"

\* mutant: the next ticker's fetch starts without waiting for the current one
CanBeginFetch_Concurrent(j) ==
    pc \in {"loop", "fetching", "fetched"} /\ j <= Len(tickers)

\* the for loop takes the tickers one at a time, in list order
CanBeginFetch(j) == pc = "loop" /\ j = i /\ j <= Len(tickers)

\* the end of the loop body goes on to the next ticker
NextIndex(j) == j + 1

\* mutant: `break` instead of `continue`
AfterFailure_Break(j) == Len(tickers) + 1

\* so does `continue`, after an empty or short frame and in the except handler
AfterFailure(j) == j + 1

\* mutant: results.insert(0, result)
AppendRecord_Front(rs, r) == <<r>> \o rs

\* results.append(result)
AppendRecord(rs, r) == Append(rs, r)

\* mutant: the close has to reach the maximum itself
AllTimeHigh_NoTolerance(d, tenYear) ==
    IF tenYear.kind = "data" THEN Ge(CloseAt(d, -1), tenYear.max) ELSE FALSE

\* indicators['all_time_high']: bool(current_close >= ten_year_max * 0.9999)
\* when the 10-year frame is not empty; False when it is empty or the
\* download raised (the block has its own try / except)
AllTimeHigh(d, tenYear) ==
    IF tenYear.kind = "data"
    THEN Ge(CloseAt(d, -1), MulF(tenYear.max, Rat(9999, 10000)))
    ELSE FALSE

\* Strings are sequences of one-character strings.
DotTW == <<".", "T", "W">>

DotTWO == <<".", "T", "W", "O">>

Digits == {"0", "1", "2", "3", "4", "5", "6", "7", "8", "9"}

\* s[k:].startswith(old), k counted from 1
StartsWithAt(s, old, k) ==
    /\ k + Len(old) - 1 <= Len(s)
    /\ SubSeq(s, k, k + Len(old) - 1) = old

\* s[k:].replace(old, ''): the occurrences are found from the left and do
\* not overlap
RECURSIVE ReplaceFrom(_, _, _)
ReplaceFrom(s, old, k) ==
    IF k > Len(s) THEN <<>>
    ELSE IF StartsWithAt(s, old, k) THEN ReplaceFrom(s, old, k + Len(old))
    ELSE <<s[k]>> \o ReplaceFrom(s, old, k + 1)

\* s.replace(old, '')
StrReplace(s, old) == ReplaceFrom(s, old, 1)

\* s.isdigit()
IsDigit(s) == s # <<>> /\ \A k \in 1..Len(s) : s[k] \in Digits

\* clean_code = ticker.replace('.TW', '').replace('.TWO', '')
clean_code(ticker) == StrReplace(StrReplace(ticker, DotTW), DotTWO)

\* `clean_code.isdigit() and len(clean_code) == 4`: the codes that are put in
\* taiwan_stock_codes, asked of the two batch sources and so can be keys of
\* institutional_batch_data and revenue_batch_data
IsTaiwanCode(ticker) ==
    IsDigit(clean_code(ticker)) /\ Len(clean_code(ticker)) = 4

\* fundamental_data: filled from .info inside a try; the defaults (NaN) stay
\* when .info is empty or raises.  "data" / "default" stand for the values.
FundamentalData(v, e) == IF e.info = "data" THEN "data" ELSE "default"

\* revenue_data.  US_momentum.py reads quarterly_financials in the same try
\* block as .info, after it: when .info raises the block is left before the
\* revenue source is asked.  app.py looks the cleaned code up in the revenue
\* batch; code4: the cleaned code of the ticker is a 4-digit code.
RevenueData(v, code4, e) ==
    IF v = "US"
    THEN (IF e.info # "raise" /\ e.revenue = "data" THEN "data" ELSE "default")
    ELSE (IF code4 /\ e.revenue = "data" THEN "data" ELSE "default")

\* institutional_data (app.py): the latest row of the batch entry of the
\* cleaned code, else zeros
InstitutionalData(v, code4, e) ==
    IF code4 /\ e.inst = "data" THEN "data" ELSE "default"

\* some bar has a `periods`-day return that is not NaN
HasValidPctChange(d, periods, pad) ==
    \E idx \in -(d.n)..-1 : ~IsNaN(PctChangeAt(d, periods, idx, pad))

\* the engine raises: in TW_momentun.py `.dropna().iloc[-1]` on a series
\* without one valid return is an IndexError (the US / app engine reads it
\* through safe_get_value inside a try)
EngineRaises(v, d, e) ==
    /\ v = "TW"
    /\ ~TooShort(d)
    /\ \/ ~HasValidPctChange(d, 5, e.pad)
       \/ ~HasValidPctChange(d, 22, e.pad)

\* the output record of ticker j: the columns the three runners share, then
\* the ones of process_us_stock_data and of app.process_stock_data
Record(v, j, code4, ind, e) ==
    LET shared == [Ticker          |-> j,
                   Close           |-> Get(ind, "close", NaN),
                   VolumnChange    |-> Get(ind, "volume_change", NaN),
                   VC_30           |-> Get(ind, "vc_30", FALSE),
                   RSI_5           |-> Get(ind, "rsi5", NaN),
                   RSI_14          |-> Get(ind, "rsi14", NaN),
                   Macdhist        |-> Get(ind, "macdhist", NaN),
                   macdhist_signal |-> Get(ind, "macdhist_signal", FALSE),
                   Ma5             |-> Get(ind, "ma5", NaN),
                   Ma20            |-> Get(ind, "ma20", NaN),
                   Ma60            |-> Get(ind, "ma60", NaN),
                   Crossover       |-> Get(ind, "crossover", FALSE)]
        external == [All_Time_High |-> Get(ind, "all_time_high", FALSE),
                     Revenue       |-> RevenueData(v, code4, e),
                     EPS           |-> FundamentalData(v, e)]
    IN  IF v = "TW" THEN shared
        ELSE IF v = "US" THEN shared @@ external
        ELSE shared @@ external @@ [Total_Net |-> InstitutionalData(v, code4, e)]

BatchInit ==
    /\ variant \in Variants
    /\ listSource \in (IF variant = "US" THEN {"ok"} ELSE {"ok", "unreadable"})
    /\ tickers \in (IF listSource = "unreadable" THEN {<<>>}
                    ELSE IF variant = "US"
                         THEN TickerLists({"OTHER"}) \ {<<>>}
                         ELSE TickerLists(Kinds))
    /\ pc = "start"
    /\ i = 1
    /\ phase = [j \in 1..Len(tickers) |-> "Pending"]
    /\ log = [j \in 1..Len(tickers) |-> NoLog]
    /\ df = EmptyDf
    /\ window = IF variant = "APP" THEN "undefined" ELSE "defined"
    /\ results = <<>>
    /\ ret = "pending"
    /\ raised = FALSE
    /\ diag = FALSE
    /\ ta = DefaultTa
    /\ indicators = EmptyDict
    /\ env = DefaultEnv
    /\ local = NoLocals

\* TW_momentun.process_stock_data: pd.read_excel is outside every try
ReadListTW ==
    /\ pc = "start" /\ variant = "TW"
    /\ IF listSource = "unreadable"
       THEN raised' = TRUE /\ pc' = "done"
       ELSE raised' = raised /\ pc' = "loop"
    /\ UNCHANGED <<env, local>>
    /\ UNCHANGED <<variant, listSource, tickers, i, phase, log, df, window,
                   results, ret, diag, ta, indicators>>

\* process_us_stock_data: the hard-coded list; `if not valid_data: raise
\* ValueError` lands in the outer except, which prints and returns an empty frame
ReadListUS ==
    /\ pc = "start" /\ variant = "US"
    /\ IF tickers = <<>>
       THEN diag' = TRUE /\ ret' = "frame" /\ pc' = "done"
       ELSE diag' = diag /\ ret' = ret /\ pc' = "loop"
    /\ UNCHANGED <<env, local>>
    /\ UNCHANGED <<variant, listSource, tickers, i, phase, log, df, window,
                   results, raised, ta, indicators>>

\* app.process_stock_data: read_excel inside the outer try (st.error, return
\* None); start_day / stock_end_date are bound only under `if taiwan_stock_codes:`
ReadListAPP ==
    /\ pc = "start" /\ variant = "APP"
    /\ IF listSource = "unreadable"
       THEN diag' = TRUE /\ ret' = "None" /\ pc' = "done" /\ window' = window
       ELSE /\ diag' = diag /\ ret' = ret /\ pc' = "loop"
            /\ window' = IF taiwan_stock_codes(tickers) # {}
                         THEN "defined" ELSE "undefined"
    /\ UNCHANGED <<env, local>>
    /\ UNCHANGED <<variant, listSource, tickers, i, phase, log, df,
                   results, raised, ta, indicators>>

\* the loop body starts on ticker j: yf.download is called; in app.py the
\* call's arguments raise NameError when the window is unbound, and the
\* per-ticker except goes on to the next ticker
BeginFetch(j) ==
    /\ CanBeginFetch(j)
    /\ phase[j] = "Pending"
    /\ IF window = "undefined"
       THEN /\ phase' = [phase EXCEPT ![j] = "Skipped"]
            /\ log' = [log EXCEPT ![j].compute = "raise"]
            /\ i' = AfterFailure(j)
            /\ pc' = "loop"
       ELSE /\ phase' = [phase EXCEPT ![j] = "Fetching"]
            /\ log' = log
            /\ i' = j
            /\ pc' = "fetching"
    /\ UNCHANGED <<env, local>>
    /\ UNCHANGED <<variant, listSource, tickers, df, window, results, ret,
                   raised, diag, ta, indicators>>

\* yf.download raises
FetchRaises ==
    /\ pc = "fetching"
    /\ \E j \in 1..Len(tickers) :
        /\ phase[j] = "Fetching"
        /\ phase' = [phase EXCEPT ![j] = "FetchFailure"]
        /\ log' = [log EXCEPT ![j].fetch = "raise"]
    /\ df' = EmptyDf
    /\ pc' = "fetched"
    /\ UNCHANGED <<env, local>>
    /\ UNCHANGED <<variant, listSource, tickers, i, window, results, ret,
                   raised, diag, ta, indicators>>

\* yf.download returns a frame
FetchReturns ==
    /\ pc = "fetching"
    /\ \E d \in BatchDfs :
        /\ df' = d
        /\ \E j \in 1..Len(tickers) :
            /\ phase[j] = "Fetching"
            /\ phase' = [phase EXCEPT ![j] = PhaseAfterFetch(d)]
            /\ log' = [log EXCEPT ![j].fetch = "returned", ![j].n = d.n]
    /\ pc' = "fetched"
    /\ UNCHANGED <<env, local>>
    /\ UNCHANGED <<variant, listSource, tickers, i, window, results, ret,
                   raised, diag, ta, indicators>>

\* `continue` after an empty or short frame, or the per-ticker except handler
Skip ==
    /\ pc = "fetched"
    /\ \E j \in 1..Len(tickers) :
        /\ phase[j] \in {"FetchFailure", "InsufficientData"}
        /\ phase' = [phase EXCEPT ![j] = "Skipped"]
        /\ i' = AfterFailure(j)
    /\ pc' = "loop"
    /\ UNCHANGED <<env, local>>
    /\ UNCHANGED <<variant, listSource, tickers, log, df, window, results, ret,
                   raised, diag, ta, indicators>>

\* something between the fetch and results.append raises: the per-ticker
\* except handler catches it and the loop goes on
ComputeRaises ==
    /\ pc = "fetched"
    /\ \E j \in 1..Len(tickers) :
        /\ phase[j] = "Computing"
        /\ phase' = [phase EXCEPT ![j] = "Skipped"]
        /\ log' = [log EXCEPT ![j].compute = "raise"]
        /\ i' = AfterFailure(j)
    /\ pc' = "loop"
    /\ UNCHANGED <<env, local>>
    /\ UNCHANGED <<variant, listSource, tickers, df, window, results, ret,
                   raised, diag, ta, indicators>>

\* what the 10-year fetch of the all-time-high block can do: raise, return
\* nothing, return closes that never went above the current one, or closes
\* that were twice as high
AthOutcomes ==
    {TenYearRaises, TenYearEmpty, TenYearData(F(BaseClose + 6)),
     TenYearData(F(2 * BaseClose))}

\* the indicators the record is built from: the engine's dict and, in
\* US_momentum.py and app.py, indicators['all_time_high'] set after it
RecordIndicators(v, d, t, e) ==
    IF v = "TW" THEN Engine(v, d, t, e)
    ELSE [all_time_high |-> AllTimeHigh(d, e.tenYear)] @@ Engine(v, d, t, e)

\* the engine runs and `if indicators:` appends the record
Compute ==
    /\ pc = "fetched"
    /\ \E j \in 1..Len(tickers), ath \in AthOutcomes :
        /\ phase[j] = "Computing"
        /\ LET e   == [env EXCEPT !.tenYear = ath]
               ind == RecordIndicators(variant, df, DefaultTa, e)
           IN  IF Truthy(ind)
               THEN /\ results' = AppendRecord(results,
                                      Record(variant, j, tickers[j] = "TW4",
                                             ind, e))
                    /\ phase' = [phase EXCEPT ![j] = "Recorded"]
               ELSE /\ results' = results
                    /\ phase' = [phase EXCEPT ![j] = "Skipped"]
        /\ log' = [log EXCEPT ![j].compute = "ok"]
        /\ i' = NextIndex(j)
    /\ pc' = "loop"
    /\ UNCHANGED <<env, local>>
    /\ UNCHANGED <<variant, listSource, tickers, df, window, ret,
                   raised, diag, ta, indicators>>

\* `return pd.DataFrame(results)` after the last ticker
Return ==
    /\ pc = "loop" /\ i > Len(tickers)
    /\ ret' = "frame"
    /\ pc' = "done"
    /\ UNCHANGED <<env, local>>
    /\ UNCHANGED <<variant, listSource, tickers, i, phase, log, df, window,
                   results, raised, diag, ta, indicators>>

Next ==
    \/ ReadListTW
    \/ ReadListUS
    \/ ReadListAPP
    \/ \E j \in 1..MaxInstruments : BeginFetch(j)
    \/ FetchRaises
    \/ FetchReturns
    \/ Skip
    \/ ComputeRaises
    \/ Compute
    \/ Return

Spec == BatchInit /\ [][Next]_vars

\* a running sequential program takes its next step
FairSpec == Spec /\ WF_vars(Next)

-----------------------------------------------------------------------------
(* The indicator engine on its own: one call of the engine on one series.   *)
(* pc: "engine_input" before the call, "engine_done" after it.              *)

EngineLens == {0, 1, MinBars - 1} \cup MinBars..(MinBars + MaxExtraBars)

CloseM4Vals == {NaN, F(0), F(BaseClose)}

CloseM1Vals == {NaN, F(BaseClose - 6), F(BaseClose - 5), F(BaseClose),
                F(BaseClose + 6)}

VolumePrevVals == {BaseVolume \div 25, BaseVolume}

VolumeLastVals == {NaN, F(BaseVolume - 5), F(BaseVolume), F(2 * BaseVolume)}

\* the last volume of SpecSeries: also 0, just above 1.3 times the base
\* (a change that rounds to 30.0), and 1.4 times the base
SeriesVolumeLastVals ==
    VolumeLastVals \cup
    {F(0), F((13 * BaseVolume) \div 10 + 1), F((14 * BaseVolume) \div 10)}

EngineDfs ==
    {EmptyDf} \cup
    {[n |-> len, c4 |-> a, c1 |-> b, vprev |-> vp, vlast |-> vl, age |-> 0,
      zeros |-> 0] :
        len \in EngineLens \ {0}, a \in CloseM4Vals, b \in CloseM1Vals,
        vp \in VolumePrevVals, vl \in VolumeLastVals}

EngineInit ==
    /\ variant \in Variants
    /\ df \in EngineDfs
    /\ pc = "engine_input"
    /\ ta = DefaultTa
    /\ indicators = EmptyDict
    /\ listSource = "ok"
    /\ tickers = <<>>
    /\ i = 1
    /\ phase = <<>>
    /\ log = <<>>
    /\ window = "defined"
    /\ results = <<>>
    /\ ret = "pending"
    /\ raised = FALSE
    /\ diag = FALSE
    /\ env = DefaultEnv
    /\ local = NoLocals

\* the engine is called on df; the TA-Lib calls are made only past the gate
EngineCompute ==
    /\ pc = "engine_input"
    /\ \E t \in (IF TooShort(df) THEN {DefaultTa} ELSE TaOutputs) :
        /\ ta' = t
        /\ indicators' = Engine(variant, df, t, env)
    /\ pc' = "engine_done"
    /\ UNCHANGED <<env, local>>
    /\ UNCHANGED <<variant, df, listSource, tickers, i, phase, log, window,
                   results, ret, raised, diag>>

SpecEngine == EngineInit /\ [][EngineCompute]_vars

-----------------------------------------------------------------------------
(* The indicators computed from the bars themselves (moving averages,       *)
(* volume change, returns): one call of the engine on one series, with the  *)
(* TA-Lib oscillators held at one value.  The series are the ones whose     *)
(* last bar is the c1 bar, and every cut of a synthetic series made of a    *)
(* flat history, a dip (c4) and a rise three bars later (c1).               *)

\* bars of the synthetic series up to and including the rise
SynthLens == {22, MinBars, MinBars + 2}

\* flat bars that follow the rise in the synthetic series
SynthTail == 22

SeriesLens == {22, MinBars - 1} \cup MinBars..(MinBars + MaxExtraBars)

SeriesCloseM4Vals == {NaN, F(0), F(BaseClose - 10), F(BaseClose)}

SeriesCloseM1Vals == {NaN, F(BaseClose - 6), F(BaseClose), F(BaseClose + 10),
                      F(BaseClose + 11)}

SynthDfs ==
    {[n |-> k, c4 |-> F(BaseClose - 10), c1 |-> F(BaseClose + 11),
      vprev |-> BaseVolume, vlast |-> F(BaseVolume), age |-> k - len,
      zeros |-> 0] :
        len \in SynthLens, k \in 1..(MinBars + 2 + SynthTail)}

SeriesDfs ==
    SynthDfs \cup
    {[n |-> len, c4 |-> a, c1 |-> b, vprev |-> vp, vlast |-> vl, age |-> 0,
      zeros |-> 0] :
        len \in SeriesLens, a \in SeriesCloseM4Vals, b \in SeriesCloseM1Vals,
        vp \in VolumePrevVals, vl \in SeriesVolumeLastVals}

SeriesInit ==
    /\ variant \in Variants
    /\ df \in SeriesDfs
    /\ pc = "engine_input"
    /\ ta = DefaultTa
    /\ indicators = EmptyDict
    /\ listSource = "ok"
    /\ tickers = <<>>
    /\ i = 1
    /\ phase = <<>>
    /\ log = <<>>
    /\ window = "defined"
    /\ results = <<>>
    /\ ret = "pending"
    /\ raised = FALSE
    /\ diag = FALSE
    /\ env \in SeriesEnvs
    /\ local = NoLocals

\* the engine is called on df
SeriesCompute ==
    /\ pc = "engine_input"
    /\ indicators' = Engine(variant, df, ta, env)
    /\ pc' = "engine_done"
    /\ UNCHANGED <<env, local>>
    /\ UNCHANGED <<variant, df, listSource, tickers, i, phase, log, window,
                   results, ret, raised, diag, ta>>

SpecSeries == SeriesInit /\ [][SeriesCompute]_vars

-----------------------------------------------------------------------------
(* One instrument from its code to its row of the report: the exchange      *)
(* suffix is resolved (Taiwan codes), the loop body of the runner builds    *)
(* the record from the engine's dict and the external sources, and the      *)
(* caller of the runner adds the two composite momentum columns.            *)
(*                                                                          *)
(* pc: "code_input"     a bare Taiwan code, before classify_stock_code      *)
(*     "record_input"   the price download has returned df                  *)
(*     "row_done"       the record is in `results`                          *)
(*     "row_skipped"    the loop body left without a record                 *)
(*     "composite_done" the composite columns are computed                  *)
(*     "nothing_done"   the caller reported an empty frame                  *)

\* mutant: an empty download still selects the .TW suffix
classify_stock_code_EmptyIsTW(stock_code, primary) ==
    IF primary # "raise" THEN stock_code \o DotTW ELSE stock_code \o DotTWO

\* classify_stock_code: code + ".TW" when the download returned rows; an
\* empty frame falls through and `except Exception: pass` swallows a raise,
\* both reaching `return f"{stock_code}.TWO"`
classify_stock_code(stock_code, primary) ==
    IF primary = "data" THEN stock_code \o DotTW ELSE stock_code \o DotTWO

\* macdhist_signal.astype(float)
BoolF(b) == IF b THEN F(1) ELSE F(0)

\* Composite_Momentum_s of one row
CompositeMomentumS(r) ==
    AddF(AddF(SubF(r.RSI_5, F(50)),
              SubF(r.Macdhist, BoolF(r.macdhist_signal))),
         MulF(DivF(SubF(r.Ma5, r.Ma20), r.Ma20), F(100)))

\* Composite_Momentum_l of one row
CompositeMomentumL(r) ==
    AddF(AddF(SubF(r.RSI_14, F(50)),
              SubF(r.Macdhist, BoolF(r.macdhist_signal))),
         MulF(DivF(SubF(r.Ma20, r.Ma60), r.Ma60), F(100)))

\* closes whose last `zeros` bars are 0: none, the SMA20 window, every bar
RecordZeros == {0, 20, MinBars}

RecordDfs ==
    {EmptyDf} \cup
    {[n |-> MinBars - 1, c4 |-> F(BaseClose), c1 |-> F(BaseClose + 6),
      vprev |-> BaseVolume, vlast |-> F(2 * BaseVolume), age |-> 0,
      zeros |-> 0]} \cup
    {[n |-> MinBars, c4 |-> F(BaseClose), c1 |-> F(BaseClose + 6),
      vprev |-> BaseVolume, vlast |-> F(2 * BaseVolume), age |-> 0,
      zeros |-> z] : z \in RecordZeros}

\* the 10-year download: raises, is empty, or has a maximum close that is
\* the current close, the current close / 0.9999, the current close / 0.9998,
\* twice the base close, or NaN (every close missing)
RecordTenYears ==
    {TenYearRaises, TenYearEmpty,
     TenYearData(F(BaseClose + 6)),
     TenYearData(Rat((BaseClose + 6) * 10000, 9999)),
     TenYearData(Rat((BaseClose + 6) * 10000, 9998)),
     TenYearData(F(2 * BaseClose)),
     TenYearData(NaN)}

RecordEnvs ==
    {[DefaultEnv EXCEPT !.tenYear = ty, !.info = fi, !.revenue = rv,
                        !.inst = ins, !.primary = pr] :
        ty \in RecordTenYears, fi \in {"raise", "none", "data"},
        rv \in {"raise", "none", "data"}, ins \in {"none", "data"},
        pr \in {"raise", "empty", "data"}}

\* the histogram crossed zero on the last bar, or did not
RecordTas == {DefaultTa, [DefaultTa EXCEPT !.hist_prev = Rat(1, 10)]}

\* the bare code of the Taiwan list, the symbol of the US list
StockCode == <<"2", "3", "3", "0">>

UsSymbol == <<"A", "A", "P", "L">>

RecordInit ==
    /\ variant \in Variants
    /\ df \in RecordDfs
    /\ ta \in RecordTas
    /\ env \in RecordEnvs
    /\ local = NoLocals
    /\ tickers = IF variant = "US" THEN <<UsSymbol>> ELSE <<StockCode>>
    /\ pc = IF variant = "US" THEN "record_input" ELSE "code_input"
    /\ indicators = EmptyDict
    /\ listSource = "ok"
    /\ i = 1
    /\ phase = <<"Pending">>
    /\ log = <<NoLog>>
    /\ window = "defined"
    /\ results = <<>>
    /\ ret = "pending"
    /\ raised = FALSE
    /\ diag = FALSE

\* classified_codes = [classify_stock_code(ticker) for ticker in tickers]
ClassifyCode ==
    /\ pc = "code_input"
    /\ tickers' = <<classify_stock_code(tickers[1], env.primary)>>
    /\ pc' = "record_input"
    /\ UNCHANGED <<env, local>>
    /\ UNCHANGED <<variant, listSource, i, phase, log, df, window, results,
                   ret, raised, diag, ta, indicators>>

\* the body of the ticker loop once yf.download has returned df: the two
\* `continue` gates, the engine (an exception of it goes to the per-ticker
\* except), the all-time-high block, the external sources, the record
ProcessTicker ==
    /\ pc = "record_input"
    /\ IF PhaseAfterFetch(df) # "Computing" \/ EngineRaises(variant, df, env)
       THEN /\ indicators' = EmptyDict
            /\ results' = results
            /\ phase' = <<"Skipped">>
            /\ pc' = "row_skipped"
       ELSE LET ind == RecordIndicators(variant, df, ta, env)
            IN  /\ indicators' = ind
                /\ IF Truthy(ind)
                   THEN /\ results' = AppendRecord(results,
                                          Record(variant, 1,
                                                 IsTaiwanCode(tickers[1]),
                                                 ind, env))
                        /\ phase' = <<"Recorded">>
                        /\ pc' = "row_done"
                   ELSE /\ results' = results
                        /\ phase' = <<"Skipped">>
                        /\ pc' = "row_skipped"
    /\ UNCHANGED <<env, local>>
    /\ UNCHANGED <<variant, listSource, tickers, i, log, df, window, ret,
                   raised, diag, ta>>

\* `if not dframe.empty:` the two composite columns are added to every row
CompositeMomentum ==
    /\ pc = "row_done"
    /\ results # <<>>
    /\ results' = [k \in DOMAIN results |->
                     results[k] @@
                     [Composite_Momentum_s |-> CompositeMomentumS(results[k]),
                      Composite_Momentum_l |-> CompositeMomentumL(results[k])]]
    /\ pc' = "composite_done"
    /\ UNCHANGED <<env, local>>
    /\ UNCHANGED <<variant, listSource, tickers, i, phase, log, df, window,
                   ret, raised, diag, ta, indicators>>

\* the else branch: the frame is empty, a message is printed / st.error
NoComposite ==
    /\ pc = "row_skipped"
    /\ results = <<>>
    /\ diag' = TRUE
    /\ pc' = "nothing_done"
    /\ UNCHANGED <<env, local>>
    /\ UNCHANGED <<variant, listSource, tickers, i, phase, log, df, window,
                   results, ret, raised, ta, indicators>>

RecordNext ==
    \/ ClassifyCode
    \/ ProcessTicker
    \/ CompositeMomentum
    \/ NoComposite

SpecRecord == RecordInit /\ [][RecordNext]_vars

-----------------------------------------------------------------------------
(* process_custom_file (app.py, streamlit_app.py): the body of the ticker   *)
(* loop for one uploaded code.  The code is stripped, the candidate symbols *)
(* are listed, each is downloaded in turn until one has enough bars, and    *)
(* the record is built from the frame the loop left in df.                  *)
(*                                                                          *)
(* pc: "probe_input"    the loop body starts on local.ticker                *)
(*     "probing"        in `for test_ticker in possible_tickers`            *)
(*     "probed"         after the for loop                                  *)
(*     "probe_recorded" the record is appended                              *)
(*     "probe_skipped"  a `continue` left the body                          *)
(* local.tried lists, in order, each symbol that was downloaded and what    *)
(* the download did.                                                        *)

\* the variables of the batch runner, idle while another function runs
idleVars == <<variant, listSource, tickers, i, phase, log, df, window, ret,
              diag, ta, indicators, env>>

IdleInit(v) ==
    /\ variant = v
    /\ listSource = "ok"
    /\ tickers = <<>>
    /\ i = 1
    /\ phase = <<>>
    /\ log = <<>>
    /\ df = EmptyDf
    /\ window = "defined"
    /\ ret = "pending"
    /\ diag = FALSE
    /\ ta = DefaultTa
    /\ indicators = EmptyDict
    /\ env = DefaultEnv

LowerLetters == <<"a", "l", "n", "p">>

UpperLetters == <<"A", "L", "N", "P">>

\* c.upper(), c.lower() of one character
UpperChar(c) ==
    IF \E k \in 1..Len(LowerLetters) : LowerLetters[k] = c
    THEN UpperLetters[CHOOSE k \in 1..Len(LowerLetters) : LowerLetters[k] = c]
    ELSE c

LowerChar(c) ==
    IF \E k \in 1..Len(UpperLetters) : UpperLetters[k] = c
    THEN LowerLetters[CHOOSE k \in 1..Len(UpperLetters) : UpperLetters[k] = c]
    ELSE c

\* s.upper(), s.lower()
StrUpper(s) == [k \in 1..Len(s) |-> UpperChar(s[k])]

StrLower(s) == [k \in 1..Len(s) |-> LowerChar(s[k])]

\* s.isalpha()
IsAlpha(s) ==
    /\ s # <<>>
    /\ \A k \in 1..Len(s) :
           \E m \in 1..Len(LowerLetters) :
               s[k] = LowerLetters[m] \/ s[k] = UpperLetters[m]

\* '.' in s
HasDot(s) == \E k \in 1..Len(s) : s[k] = "."

\* s.strip(): the blanks at both ends are removed
RECURSIVE StrStrip(_)
StrStrip(s) ==
    IF s = <<>> THEN s
    ELSE IF Head(s) = " " THEN StrStrip(Tail(s))
    ELSE IF s[Len(s)] = " " THEN StrStrip(SubSeq(s, 1, Len(s) - 1))
    ELSE s

\* `if not ticker or ticker.lower() == 'nan': continue`
BlankTicker(ticker) == ticker = <<>> \/ StrLower(ticker) = <<"n", "a", "n">>

\* mutant: the OTC symbol is tried first
PossibleTickers_OtcFirst(ticker) ==
    IF IsDigit(ticker) /\ Len(ticker) = 4
    THEN <<ticker \o DotTWO, ticker \o DotTW>>
    ELSE <<ticker>>

\* possible_tickers for the stripped code
PossibleTickers(ticker) ==
    IF IsDigit(ticker) /\ Len(ticker) = 4
    THEN <<ticker \o DotTW, ticker \o DotTWO>>
    ELSE IF IsDigit(ticker)
    THEN <<ticker, ticker \o DotTW, ticker \o DotTWO>>
    ELSE IF IsAlpha(ticker) /\ ~HasDot(ticker)
    THEN <<StrUpper(ticker)>>
    ELSE IF HasDot(ticker)
    THEN <<ticker>>
    ELSE <<ticker, StrUpper(ticker), ticker \o DotTW, ticker \o DotTWO>>

\* what one yf.download of the probe can do: raise, or return a frame of
\* 0, 59 or 60 bars
ProbeOutcomes ==
    {[raises |-> TRUE, n |-> 0]} \cup
    {[raises |-> FALSE, n |-> k] : k \in {0, MinBars - 1, MinBars}}

\* df = None
NoneFrame == [none |-> TRUE, n |-> 0]

\* a frame of n bars
Frame(n) == [none |-> FALSE, n |-> n]

\* the bars of a frame of n bars
BarsOf(n) ==
    [n |-> n, c4 |-> F(BaseClose), c1 |-> F(BaseClose + 6),
     vprev |-> BaseVolume, vlast |-> F(2 * BaseVolume), age |-> 0, zeros |-> 0]

\* mutant: any frame that is not empty ends the probe
DownloadOk_NotEmpty(frame) == frame.n > 0

\* `if not df.empty and len(df) >= 60:` the candidate is taken
DownloadOk(frame) == frame.n > 0 /\ frame.n >= MinBars

\* `if df is None or df.empty or len(df) < 60: continue`
ProbeGateSkips(frame) == frame.none \/ frame.n = 0 \/ frame.n < MinBars

\* the uploaded codes: a 4-digit code, one with a blank after it, a 2-digit
\* code, a lower-case US symbol, a symbol with its suffix, a code that is
\* neither digits nor letters, an empty cell and a NaN cell
ProbeInputs ==
    {StockCode, StockCode \o <<" ">>, <<"5", "0">>, <<"a", "a", "p", "l">>,
     StockCode \o DotTWO, <<"a", "-", "p">>, <<>>, <<"N", "a", "N">>}

\* is_taiwan_stock = '.TW' in ticker or '.TWO' in ticker
IsTaiwanStock(ticker) ==
    \E k \in 1..Len(ticker) :
        StartsWithAt(ticker, DotTW, k) \/ StartsWithAt(ticker, DotTWO, k)

\* the record of process_custom_file: the engine's columns, then the
\* institutional entry of the cleaned code and, from one try block, the
\* fundamentals and the revenue
CustomRecord(ticker, ind, e) ==
    Record("TW", ticker, IsTaiwanCode(ticker), ind, e) @@
    [Total_Net |-> InstitutionalData("APP", IsTaiwanCode(ticker), e),
     EPS       |-> FundamentalData("APP", e),
     Revenue   |-> IF e.info # "raise" /\ e.revenue = "data"
                      /\ (IsTaiwanStock(ticker) => IsTaiwanCode(ticker))
                   THEN "data" ELSE "default"]

ProbeInit ==
    /\ IdleInit("APP")
    /\ pc = "probe_input"
    /\ results = <<>>
    /\ raised = FALSE
    /\ \E raw \in ProbeInputs :
        local = [raw |-> raw, ticker |-> raw, possible_tickers |-> <<>>,
                 k |-> 1, df |-> NoneFrame, download_success |-> FALSE,
                 tried |-> <<>>]

\* the code is stripped and its candidates listed
PrepareCandidates ==
    /\ pc = "probe_input"
    /\ LET ticker == StrStrip(local.ticker)
       IN  IF BlankTicker(ticker)
           THEN /\ local' = [local EXCEPT !.ticker = ticker]
                /\ pc' = "probe_skipped"
           ELSE /\ local' = [local EXCEPT !.ticker = ticker,
                                 !.possible_tickers = PossibleTickers(ticker)]
                /\ pc' = "probing"
    /\ UNCHANGED <<results, raised>>
    /\ UNCHANGED idleVars

\* one pass of the for loop: the download of possible_tickers[k]
TryCandidate ==
    /\ pc = "probing"
    /\ local.k <= Len(local.possible_tickers)
    /\ \E out \in ProbeOutcomes :
        LET test_ticker == local.possible_tickers[local.k]
            tried == Append(local.tried, [symbol |-> test_ticker, out |-> out])
            last == local.k = Len(local.possible_tickers)
        IN  IF out.raises
            THEN /\ local' = [local EXCEPT !.tried = tried, !.k = @ + 1]
                 /\ pc' = IF last THEN "probed" ELSE "probing"
            ELSE IF DownloadOk(Frame(out.n))
            THEN /\ local' = [local EXCEPT !.tried = tried,
                                  !.df = Frame(out.n),
                                  !.ticker = test_ticker,
                                  !.download_success = TRUE]
                 /\ pc' = "probed"
            ELSE /\ local' = [local EXCEPT !.tried = tried,
                                  !.df = Frame(out.n), !.k = @ + 1]
                 /\ pc' = IF last THEN "probed" ELSE "probing"
    /\ UNCHANGED <<results, raised>>
    /\ UNCHANGED idleVars

\* after the loop: the gate on df, the engine, the record
BuildCustomRecord ==
    /\ pc = "probed"
    /\ IF ProbeGateSkips(local.df)
       THEN /\ results' = results
            /\ pc' = "probe_skipped"
       ELSE LET ind == Engine("APP", BarsOf(local.df.n), ta, env)
            IN  IF Truthy(ind)
                THEN /\ results' = AppendRecord(results,
                                       CustomRecord(local.ticker, ind, env))
                     /\ pc' = "probe_recorded"
                ELSE /\ results' = results
                     /\ pc' = "probe_skipped"
    /\ UNCHANGED <<local, raised>>
    /\ UNCHANGED idleVars

ProbeNext ==
    \/ PrepareCandidates
    \/ TryCandidate
    \/ BuildCustomRecord

SpecProbe == ProbeInit /\ [][ProbeNext]_vars

-----------------------------------------------------------------------------
(* institutional_data.get_institutional_trading_batch(stock_codes,          *)
(* date_str): the date is chosen by                                         *)
(* get_latest_trading_date_for_institutional_data when none is given, the   *)
(* whole market's data of that date is downloaded, earlier dates are tried  *)
(* when it is empty, and the entries of the asked codes are returned.       *)
(* A date is a day number, day 0 a Monday; a time of day is in minutes.     *)
(*                                                                          *)
(* pc: "inst_start"     at the head of get_institutional_trading_batch      *)
(*     "skip_weekend"   in the while loop of get_latest_trading_date...     *)
(*     "first_query"    date_str is bound                                   *)
(*     "fallback"       in `for i in range(1, 16)`                          *)
(*     "build"          after the fallback                                  *)
(*     "inst_returned"  the function returned local.result                  *)
(* local.queried lists, in order, each date get_all_institutional_data was  *)
(* called with and what it returned: "none" (an empty frame: no data, a     *)
(* bad status or an exception), "without" (rows, none of the asked code),   *)
(* "with" (rows with the asked code).                                       *)

\* date.weekday(): 0 Monday ... 6 Sunday
Weekday(day) == day % 7

\* cutoff_time: 18:00
CutoffMinute == 1080

\* for i in range(1, 16)
MaxBackDays == 15

\* the first day of the clock of the model, and the number of days it spans
FirstNowDay == 21

NowSpan == 7

NowDays == FirstNowDay..(FirstNowDay + NowSpan - 1)

\* times of day: midnight, 17:59, 18:00, 23:59
NowMinutes == {0, CutoffMinute - 1, CutoffMinute, 1439}

\* mutant: the cutoff minute itself is still before the cutoff
UsesToday_AfterCutoff(now) ==
    now.minute > CutoffMinute /\ Weekday(now.day) < 5

\* `now_taiwan >= cutoff_time and now_taiwan.weekday() < 5`
UsesToday(now) == now.minute >= CutoffMinute /\ Weekday(now.day) < 5

\* mutant: Saturdays are asked for as well
FallbackAsks_Saturday(prev_date) == Weekday(prev_date) < 6

\* `if prev_date.weekday() < 5:` the earlier date is asked for
FallbackAsks(prev_date) == Weekday(prev_date) < 5

\* what get_all_institutional_data can return
InstData == {"none", "without", "with"}

\* the dict the function returns, with the date its rows are of
InstResult(day, data) ==
    [from |-> day, codes |-> IF data = "with" THEN {StockCode} ELSE {}]

\* `return {}`
EmptyMapping == [from |-> 0, codes |-> {}]

InstInit ==
    /\ IdleInit("APP")
    /\ pc = "inst_start"
    /\ results = <<>>
    /\ raised = FALSE
    /\ \E d \in NowDays, m \in NowMinutes, given \in BOOLEAN :
        /\ given => (m = 0 /\ d < FirstNowDay + 3)
        /\ local = [now |-> [day |-> d, minute |-> m],
                    given |-> given,
                    date_str |-> IF given THEN d - 1 ELSE 0,
                    target_date |-> 0, i |-> 1, all_data |-> "none",
                    queried |-> <<>>, result |-> EmptyMapping]

\* get_latest_trading_date_for_institutional_data up to its while loop, when
\* no date was given
LatestTradingDate ==
    /\ pc = "inst_start"
    /\ IF local.given
       THEN /\ local' = local
            /\ pc' = "first_query"
       ELSE /\ local' = [local EXCEPT !.target_date =
                            IF UsesToday(local.now) THEN local.now.day
                            ELSE local.now.day - 1]
            /\ pc' = "skip_weekend"
    /\ UNCHANGED <<results, raised>>
    /\ UNCHANGED idleVars

\* `while target_date.weekday() >= 5: target_date -= timedelta(days=1)`
SkipWeekend ==
    /\ pc = "skip_weekend"
    /\ Weekday(local.target_date) >= 5
    /\ local' = [local EXCEPT !.target_date = @ - 1]
    /\ UNCHANGED <<pc, results, raised>>
    /\ UNCHANGED idleVars

\* the loop ends and the date is returned
ReturnTradingDate ==
    /\ pc = "skip_weekend"
    /\ Weekday(local.target_date) < 5
    /\ local' = [local EXCEPT !.date_str = local.target_date]
    /\ pc' = "first_query"
    /\ UNCHANGED <<results, raised>>
    /\ UNCHANGED idleVars

\* all_data = get_all_institutional_data(date_str)
FirstQuery ==
    /\ pc = "first_query"
    /\ \E data \in InstData :
        /\ local' = [local EXCEPT
                        !.all_data = data,
                        !.queried = Append(@, [day |-> local.date_str,
                                               data |-> data])]
        /\ pc' = IF data = "none" THEN "fallback" ELSE "build"
    /\ UNCHANGED <<results, raised>>
    /\ UNCHANGED idleVars

\* one pass of `for i in range(1, 16)`
FallbackStep ==
    /\ pc = "fallback"
    /\ local.i <= MaxBackDays
    /\ LET prev_date == local.date_str - local.i
           last == local.i = MaxBackDays
       IN  IF FallbackAsks(prev_date)
           THEN \E data \in InstData :
                   /\ local' = [local EXCEPT
                                   !.all_data = data,
                                   !.queried = Append(@, [day |-> prev_date,
                                                          data |-> data]),
                                   !.i = IF data = "none" THEN @ + 1 ELSE @]
                   /\ pc' = IF data # "none" \/ last THEN "build"
                            ELSE "fallback"
           ELSE /\ local' = [local EXCEPT !.i = @ + 1]
                /\ pc' = IF last THEN "build" ELSE "fallback"
    /\ UNCHANGED <<results, raised>>
    /\ UNCHANGED idleVars

\* `if all_data.empty: return {}`, else the rows of the asked codes
BuildResult ==
    /\ pc = "build"
    /\ local' = [local EXCEPT !.result =
                    IF local.all_data = "none" THEN EmptyMapping
                    ELSE InstResult(local.queried[Len(local.queried)].day,
                                    local.all_data)]
    /\ pc' = "inst_returned"
    /\ UNCHANGED <<results, raised>>
    /\ UNCHANGED idleVars

InstNext ==
    \/ LatestTradingDate
    \/ SkipWeekend
    \/ ReturnTradingDate
    \/ FirstQuery
    \/ FallbackStep
    \/ BuildResult

SpecInstitutional == InstInit /\ [][InstNext]_vars

\* the call runs on: every step of it is a step of one sequential function
FairSpecInstitutional == SpecInstitutional /\ WF_vars(InstNext)

-----------------------------------------------------------------------------
(* The trend scanners: us_trend_scanner.calculate_sector_trend ("sector")   *)
(* and us_market_scanner.calculate_sma_trend ("sma").  The reference dates  *)
(* are downloaded, then the tickers in one batch, then each ticker's frame  *)
(* is turned into a column of data_dict or the ticker is put in             *)
(* failed_tickers; the sector scanner downloads a ticker alone, up to three *)
(* times, when working on its frame raised or the batch download raised.    *)
(* The lists of the model fit in one batch of batch_size = 10.              *)
(*                                                                          *)
(* pc: "scan_start"    before the SPY download                              *)
(*     "batch"         before the batch download                            *)
(*     "ticker"        in `for ticker in batch_tickers`, at ticker k        *)
(*     "retry"         in `while retry_count < max_retries and not success` *)
(*     "scan_build"    after the loops                                      *)
(*     "scan_returned" the function returned (local.row_sums, local.failed) *)
(* local.batch_seen[t] is what the batch gave for t, local.attempts[t] the  *)
(* number of downloads of t alone.                                          *)

\* the longest ticker list
MaxScanTickers == 2

\* max_retries
MaxRetries == 3

ScanSymbols == <<"T1", "T2", "T3">>

\* the lists of distinct tickers
ScanLists == {SubSeq(ScanSymbols, 1, n) : n \in 0..MaxScanTickers}

\* what the work on one downloaded frame can do: a column, an empty frame,
\* a length mismatch, no valid MA20, an exception
FrameOutcomes == {"ok", "empty", "mismatch", "novalid", "raise"}

\* the ticker goes to the individual downloads: the except clause of the
\* per-ticker try of the sector scanner
NeedsRetry(scanner, outcome) == scanner = "sector" /\ outcome = "raise"

\* failed_tickers of `return pd.Series(dtype='float64'), []`
ReferenceFailed(ts) == <<>>

\* `while retry_count < max_retries and not success`
RetryGoesOn(l) == l.retry_count < MaxRetries /\ ~l.success

\* the loop moves to the ticker after k
ScanAdvance(l) ==
    [l EXCEPT !.k = @ + 1, !.retry_count = 0, !.success = FALSE]

ScanPcAfter(l, nextpc) == IF l.k = Len(l.tickers) THEN "scan_build" ELSE nextpc

ScanInit ==
    /\ IdleInit("US")
    /\ pc = "scan_start"
    /\ results = <<>>
    /\ raised = FALSE
    /\ \E sc \in {"sector", "sma"}, ts \in ScanLists :
        local = [scanner |-> sc, tickers |-> ts, reference |-> "none",
                 mode |-> "batch", k |-> 1, data_dict |-> {},
                 failed |-> <<>>, retry_count |-> 0, success |-> FALSE,
                 batch_seen |-> [t \in {ts[j] : j \in 1..Len(ts)} |-> "none"],
                 attempts |-> [t \in {ts[j] : j \in 1..Len(ts)} |-> 0],
                 row_sums |-> "none"]

\* reference_df = yf.download('SPY', ...): empty or an exception returns at once
FetchReference ==
    /\ pc = "scan_start"
    /\ \E r \in {"ok", "empty", "raise"} :
        IF r = "ok"
        THEN /\ local' = [local EXCEPT !.reference = r]
             /\ pc' = "batch"
        ELSE /\ local' = [local EXCEPT !.reference = r, !.row_sums = "empty",
                              !.failed = ReferenceFailed(local.tickers)]
             /\ pc' = "scan_returned"
    /\ UNCHANGED <<results, raised>>
    /\ UNCHANGED idleVars

\* the batch download.  sector: no batch for an empty list; an exception
\* sends every ticker of the batch to the individual downloads.  sma: an
\* exception returns every ticker as failed.
BatchDownload ==
    /\ pc = "batch"
    /\ IF local.scanner = "sector" /\ local.tickers = <<>>
       THEN /\ local' = local
            /\ pc' = "scan_build"
       ELSE \E b \in {"ok", "raise"} :
            IF b = "ok"
            THEN /\ local' = local
                 /\ pc' = IF local.tickers = <<>> THEN "scan_build" ELSE "ticker"
            ELSE IF local.scanner = "sma"
            THEN /\ local' = [local EXCEPT !.row_sums = "empty",
                                  !.failed = local.tickers]
                 /\ pc' = "scan_returned"
            ELSE /\ local' = [local EXCEPT !.mode = "individual"]
                 /\ pc' = "retry"
    /\ UNCHANGED <<results, raised>>
    /\ UNCHANGED idleVars

\* the body of `for ticker in batch_tickers` on the batch's frame of ticker k
ScanTicker ==
    /\ pc = "ticker"
    /\ \E o \in FrameOutcomes :
        LET ticker == local.tickers[local.k]
            seen == [local EXCEPT !.batch_seen[ticker] = o]
        IN  IF o = "ok"
            THEN /\ local' = ScanAdvance(
                                [seen EXCEPT !.data_dict = @ \cup {ticker}])
                 /\ pc' = ScanPcAfter(local, "ticker")
            ELSE IF NeedsRetry(local.scanner, o)
            THEN /\ local' = [seen EXCEPT !.retry_count = 0, !.success = FALSE]
                 /\ pc' = "retry"
            ELSE /\ local' = ScanAdvance(
                                [seen EXCEPT !.failed = Append(@, ticker)])
                 /\ pc' = ScanPcAfter(local, "ticker")
    /\ UNCHANGED <<results, raised>>
    /\ UNCHANGED idleVars

\* one pass of the while loop: ticker k is downloaded alone
RetryAttempt ==
    /\ pc = "retry"
    /\ RetryGoesOn(local)
    /\ \E o \in FrameOutcomes :
        LET ticker == local.tickers[local.k]
            tried == [local EXCEPT !.attempts[ticker] = @ + 1]
        IN  local' = IF o = "ok"
                     THEN [tried EXCEPT !.data_dict = @ \cup {ticker},
                                        !.success = TRUE]
                     ELSE [tried EXCEPT !.retry_count = @ + 1]
    /\ UNCHANGED <<pc, results, raised>>
    /\ UNCHANGED idleVars

\* the while loop is left: `if not success: failed_tickers.append(ticker)`
EndRetry ==
    /\ pc = "retry"
    /\ ~RetryGoesOn(local)
    /\ LET ticker == local.tickers[local.k]
           nextpc == IF local.mode = "individual" THEN "retry" ELSE "ticker"
           told == IF local.success THEN local
                   ELSE [local EXCEPT !.failed = Append(@, ticker)]
       IN  /\ local' = ScanAdvance(told)
           /\ pc' = ScanPcAfter(local, nextpc)
    /\ UNCHANGED <<results, raised>>
    /\ UNCHANGED idleVars

\* `if not data_dict: return pd.Series(...), failed_tickers`, else the
\* percentage over the columns of data_dict
BuildTrend ==
    /\ pc = "scan_build"
    /\ local' = [local EXCEPT !.row_sums =
                    IF local.data_dict = {} THEN "empty" ELSE "percent"]
    /\ pc' = "scan_returned"
    /\ UNCHANGED <<results, raised>>
    /\ UNCHANGED idleVars

ScanNext ==
    \/ FetchReference
    \/ BatchDownload
    \/ ScanTicker
    \/ RetryAttempt
    \/ EndRetry
    \/ BuildTrend

SpecScanner == ScanInit /\ [][ScanNext]_vars

-----------------------------------------------------------------------------
(* The login gate of streamlit_app.py.  Every interaction of the browser    *)
(* runs the script (main) again, with the widget the user acted on carried  *)
(* by local.event; st.rerun() ends the run and starts the next one.         *)
(*                                                                          *)
(* pc: "page_idle"  the page waits for the user                             *)
(*     "run_start"  main() is entered                                       *)
(*     "checked"    check_login() is done                                   *)
(*     "login_page" login_page() is entered                                 *)
(*     "sidebar"    the header and tabs are drawn, the sidebar is next      *)
(* local.session is st.session_state, local.view what the run has drawn,    *)
(* local.typed the values of the two text inputs of the login form, which   *)
(* the browser keeps between runs while the form is drawn.                  *)

\* USERS
USERS == [admin |-> "admin123", vivian |-> "vivian123"]

\* what can be typed in the two text inputs
TypedNames == {"admin", "vivian", "guest", ""}

TypedPasswords == {"admin123", "vivian123", "guest123", ""}

\* the text inputs as they are first drawn
BlankForm == [username |-> "", password |-> ""]

NoEvent == [kind |-> "none", username |-> "", password |-> ""]

LogoutClick == [kind |-> "logout", username |-> "", password |-> ""]

\* mutant: the password is not compared
CredentialsOk_AnyPassword(username, password) ==
    username \in DOMAIN USERS

\* `username in USERS and USERS[username] == password`
CredentialsOk(username, password) ==
    username \in DOMAIN USERS /\ USERS[username] = password

\* check_login(): the keys that are missing get their defaults
check_login(session) ==
    LET s1 == IF "logged_in" \in DOMAIN session THEN session
              ELSE session @@ ("logged_in" :> FALSE)
    IN  IF "username" \in DOMAIN s1 THEN s1 ELSE s1 @@ ("username" :> "")

LoginInit ==
    /\ IdleInit("US")
    /\ pc = "run_start"
    /\ results = <<>>
    /\ raised = FALSE
    /\ local = [session |-> <<>>, event |-> NoEvent, view |-> "none",
                typed |-> BlankForm]

\* the user fills the text inputs; a form sends nothing until it is submitted
TypeCredentials ==
    /\ pc = "page_idle"
    /\ local.view = "login"
    /\ \E u \in TypedNames, p \in TypedPasswords :
        local' = [local EXCEPT !.typed = [username |-> u, password |-> p]]
    /\ UNCHANGED <<pc, results, raised>>
    /\ UNCHANGED idleVars

\* the form is sent with what was typed
SubmitLogin ==
    /\ pc = "page_idle"
    /\ local.view = "login"
    /\ local' = [local EXCEPT !.view = "none", !.event =
                     [kind |-> "submit", username |-> local.typed.username,
                      password |-> local.typed.password]]
    /\ pc' = "run_start"
    /\ UNCHANGED <<results, raised>>
    /\ UNCHANGED idleVars

\* the logout button of the sidebar is clicked
ClickLogout ==
    /\ pc = "page_idle"
    /\ local.view = "main"
    /\ local' = [local EXCEPT !.view = "none", !.event = LogoutClick]
    /\ pc' = "run_start"
    /\ UNCHANGED <<results, raised>>
    /\ UNCHANGED idleVars

\* a run that no widget of the gate caused (another widget, a reload of the
\* page in the same session)
PageRun ==
    /\ pc = "page_idle"
    /\ local' = [local EXCEPT !.view = "none", !.event = NoEvent]
    /\ pc' = "run_start"
    /\ UNCHANGED <<results, raised>>
    /\ UNCHANGED idleVars

\* main(): check_login()
CheckLogin ==
    /\ pc = "run_start"
    /\ local' = [local EXCEPT !.session = check_login(@)]
    /\ pc' = "checked"
    /\ UNCHANGED <<results, raised>>
    /\ UNCHANGED idleVars

\* main(): `if not st.session_state.logged_in: login_page(); return`, else
\* the header and the tabs of the analysis
LoginGate ==
    /\ pc = "checked"
    /\ IF ~local.session.logged_in
       THEN /\ local' = [local EXCEPT !.view = "login"]
            /\ pc' = "login_page"
       ELSE /\ local' = [local EXCEPT !.view = "main", !.typed = BlankForm]
            /\ pc' = "sidebar"
    /\ UNCHANGED <<results, raised>>
    /\ UNCHANGED idleVars

\* login_page(): `if login_button:` with the credentials test; a success
\* sets the session and reruns
LoginPage ==
    /\ pc = "login_page"
    /\ IF local.event.kind = "submit"
          /\ CredentialsOk(local.event.username, local.event.password)
       THEN /\ local' = [session |-> [local.session EXCEPT
                                         !.logged_in = TRUE,
                                         !.username = local.event.username],
                         event |-> NoEvent, view |-> "none",
                         typed |-> local.typed]
            /\ pc' = "run_start"
       ELSE /\ local' = [local EXCEPT !.event = NoEvent]
            /\ pc' = "page_idle"
    /\ UNCHANGED <<results, raised>>
    /\ UNCHANGED idleVars

\* main(): `if st.button(logout): logout()`, which resets the session and
\* reruns; else the rest of the page
Sidebar ==
    /\ pc = "sidebar"
    /\ IF local.event.kind = "logout"
       THEN /\ local' = [session |-> [local.session EXCEPT
                                         !.logged_in = FALSE,
                                         !.username = ""],
                         event |-> NoEvent, view |-> "none",
                         typed |-> local.typed]
            /\ pc' = "run_start"
       ELSE /\ local' = [local EXCEPT !.event = NoEvent]
            /\ pc' = "page_idle"
    /\ UNCHANGED <<results, raised>>
    /\ UNCHANGED idleVars

LoginNext ==
    \/ TypeCredentials
    \/ SubmitLogin
    \/ ClickLogout
    \/ PageRun
    \/ CheckLogin
    \/ LoginGate
    \/ LoginPage
    \/ Sidebar

SpecLogin == LoginInit /\ [][LoginNext]_vars

-----------------------------------------------------------------------------
(* Claims *)

EngineDone == pc = "engine_done"

\* the engines that compute the composite signals
SignalEngine == variant \in {"US", "APP"}

\* C1: a series with fewer than 60 bars (the empty one included) gives the
\* empty indicator set: no key is present
C1_MinimumLengthGate ==
    (EngineDone /\ df.n < MinBars) => DOMAIN indicators = {}

C1_Witness ==
    EngineDone /\ df.n = MinBars - 1 /\ DOMAIN indicators = {}

\* the instruments whose fetch returned at least 60 bars and whose
\* processing did not raise
Good == {j \in DOMAIN log :
            /\ log[j].fetch = "returned"
            /\ log[j].n > 0
            /\ log[j].n >= MinBars
            /\ log[j].compute = "ok"}

RecordedTickers == {results[k].Ticker : k \in DOMAIN results}

\* C2: in TW_momentun.process_stock_data and process_us_stock_data, once the
\* list is read no exception leaves the batch, and at the end every
\* instrument was fetched and every instrument that fetched and computed
\* well has its record, whatever happened to the instruments before it
C2_BatchIsolation ==
    (variant \in {"TW", "US"} /\ listSource = "ok") =>
        /\ ~raised
        /\ pc = "done" =>
            /\ ret = "frame"
            /\ \A j \in DOMAIN log : log[j].fetch # "none"
            /\ \A j \in DOMAIN phase : phase[j] \in Terminal
            /\ Good \subseteq RecordedTickers

C2_Witness ==
    /\ variant \in {"TW", "US"}
    /\ pc = "done"
    /\ Len(tickers) = 3
    /\ log[2].fetch = "raise"
    /\ Len(results) = 2
    /\ results[1].Ticker = 1
    /\ results[2].Ticker = 3

\* C3: the returned ResultSet holds exactly one record for each instrument
\* whose fetch returned at least 60 bars and whose processing did not raise,
\* none for any other, in the order of the input list
C3_ResultSetContentAndOrder ==
    (pc = "done" /\ ret = "frame") =>
        /\ RecordedTickers = Good
        /\ Len(results) = Cardinality(Good)
        /\ \A k1, k2 \in DOMAIN results :
            k1 < k2 => results[k1].Ticker < results[k2].Ticker

C3_Witness ==
    /\ pc = "done" /\ ret = "frame"
    /\ Len(tickers) = 3
    /\ Len(results) = 2
    /\ \E j \in DOMAIN log : log[j].fetch = "returned" /\ log[j].n = MinBars - 1

\* C4 (as claimed): when the list is empty or cannot be read, every entry
\* point returns an empty ResultSet with a diagnostic and raises nothing
C4_GlobalFailure ==
    (pc = "done" /\ (listSource = "unreadable" \/ tickers = <<>>)) =>
        /\ ~raised
        /\ ret = "frame"
        /\ results = <<>>
        /\ diag

\* the per-instrument state machine
Transitions ==
    {<<"Pending", "Fetching">>,
     <<"Fetching", "FetchFailure">>,
     <<"Fetching", "InsufficientData">>,
     <<"Fetching", "Computing">>,
     <<"FetchFailure", "Skipped">>,
     <<"InsufficientData", "Skipped">>,
     <<"Computing", "Skipped">>,
     <<"Computing", "Recorded">>}

PhaseStep ==
    \A j \in DOMAIN phase :
        phase'[j] = phase[j] \/ <<phase[j], phase'[j]>> \in Transitions

\* an instrument is Computing or Recorded only when its fetch returned at
\* least 60 bars
ComputingNeedsBars ==
    \A j \in DOMAIN phase :
        phase[j] \in {"Computing", "Recorded"} =>
            log[j].fetch = "returned" /\ log[j].n >= MinBars

AllTerminal == \A j \in DOMAIN phase : phase[j] \in Terminal

\* the entry points C5 is about, once the list is read
C5_Scope == variant \in {"TW", "US"} /\ listSource = "ok"

\* C5: in TW_momentun.process_stock_data and process_us_stock_data every
\* instrument starts Pending, moves only along Pending -> Fetching ->
\* {InsufficientData, FetchFailure, Computing} -> {Skipped, Recorded}
\* (so FetchFailure and InsufficientData end Skipped, Recorded comes only
\* from Computing, and a terminal state is never left), is Computing only
\* with at least 60 fetched bars, and eventually is Skipped or Recorded
C5_InstrumentStateMachine ==
    /\ C5_Scope => \A j \in DOMAIN phase : phase[j] = "Pending"
    /\ [][C5_Scope => PhaseStep]_vars
    /\ [](C5_Scope => ComputingNeedsBars)
    /\ <>[](C5_Scope => AllTerminal)

C5_Witness ==
    /\ variant \in {"TW", "US"}
    /\ pc = "done"
    /\ \E j, k \in DOMAIN phase :
        /\ phase[j] = "Recorded"
        /\ phase[k] = "Skipped" /\ log[k].n = MinBars - 1

\* C6: at most one instrument is past Pending and not yet terminal, and an
\* instrument leaves Pending only when every instrument before it is
\* terminal
C6_StrictlySequential ==
    /\ Cardinality({j \in DOMAIN phase : phase[j] \in Active}) <= 1
    /\ \A j, k \in DOMAIN phase :
        (k < j /\ phase[j] # "Pending") => phase[k] \in Terminal

C6_Witness ==
    /\ variant \in {"US", "APP"}
    /\ Len(tickers) >= 2
    /\ phase[1] = "Recorded"
    /\ phase[2] = "Fetching"

\* C7: short_uptrend_momentum is true iff close > SMA5, volume > 5-day mean,
\* %K > %D, RSI14 > 50 and MACD histogram > 0; a NaN input makes its
\* comparison, and so the composite, false
C7_ShortUptrendMomentum ==
    (EngineDone /\ SignalEngine /\ df.n >= MinBars) =>
        (indicators["short_uptrend_momentum"] <=>
            /\ Gt(CloseAt(df, -1), SMA_last(df, 5))
            /\ Gt(VolumeAt(df, -1), VolumeMean(df, 5))
            /\ Gt(ta.k5, ta.d5)
            /\ Gt(ta.rsi14, F(50))
            /\ Gt(ta.hist, F(0)))

C7_Witness ==
    /\ EngineDone /\ SignalEngine /\ df.n >= MinBars
    /\ indicators["short_uptrend_momentum"]

\* C8: short_downtrend_signal is true iff close < SMA5, volume < 20-day mean,
\* %K < %D and MACD histogram < 0
C8_ShortDowntrendSignal ==
    (EngineDone /\ SignalEngine /\ df.n >= MinBars) =>
        (indicators["short_downtrend_signal"] <=>
            /\ Lt(CloseAt(df, -1), SMA_last(df, 5))
            /\ Lt(VolumeAt(df, -1), VolumeMean(df, 20))
            /\ Lt(ta.k5, ta.d5)
            /\ Lt(ta.hist, F(0)))

C8_Witness ==
    /\ EngineDone /\ SignalEngine /\ df.n >= MinBars
    /\ indicators["short_downtrend_signal"]

\* the 3-day decline can be computed: both closes known, close[t-3] > 0
C9_Defined ==
    /\ ~IsNaN(CloseAt(df, -4))
    /\ ~IsNaN(CloseAt(df, -1))
    /\ CloseAt(df, -4).num > 0

\* (close[t-3] - close[t]) / close[t-3] * 100
C9_Decline ==
    Rat((CloseAt(df, -4).num - CloseAt(df, -1).num) * 100, CloseAt(df, -4).num)

\* C9: institutional_selling is true iff close < SMA20, volume > 5-day mean
\* and the 3-day decline is strictly above 5; the decline is reported as 0
\* when close[t-3] is not positive or a close is NaN
C9_InstitutionalSelling ==
    (EngineDone /\ SignalEngine /\ df.n >= MinBars) =>
        /\ indicators["institutional_selling"] <=>
            /\ Lt(CloseAt(df, -1), SMA_last(df, 20))
            /\ Gt(VolumeAt(df, -1), VolumeMean(df, 5))
            /\ C9_Defined
            /\ Gt(C9_Decline, F(5))
        /\ C9_Defined => NumEq(indicators["decline_3days"], C9_Decline)
        /\ ~C9_Defined => NumEq(indicators["decline_3days"], F(0))

C9_Witness ==
    /\ EngineDone /\ SignalEngine /\ df.n >= MinBars
    /\ indicators["institutional_selling"]
    /\ Gt(indicators["decline_3days"], F(5))

\* C10: macdhist_signal is true iff the last histogram value is > 0 and the
\* one before it is < 0: (-0.5, +0.3) gives true, (+0.1, +0.3) false, a
\* prior value of 0 or NaN false
C10_MacdBullishCross ==
    (EngineDone /\ df.n >= MinBars) =>
        /\ indicators["macdhist_signal"] <=>
            (Gt(ta.hist, F(0)) /\ Lt(ta.hist_prev, F(0)))
        /\ (ta.hist_prev = Rat(-1, 2) /\ ta.hist = Rat(3, 10)) =>
            indicators["macdhist_signal"]
        /\ (ta.hist_prev = Rat(1, 10) /\ ta.hist = Rat(3, 10)) =>
            ~indicators["macdhist_signal"]
        /\ (ta.hist_prev = F(0) \/ IsNaN(ta.hist_prev)) =>
            ~indicators["macdhist_signal"]

C10_Witness ==
    /\ EngineDone /\ variant = "TW" /\ df.n >= MinBars
    /\ ta.hist_prev = Rat(-1, 2) /\ ta.hist = Rat(3, 10)
    /\ indicators["macdhist_signal"]

\* the last bar of df is the bar the c1 close is on
AtC1Bar == df.age = 0

\* C11: crossover is true iff SMA20 - SMA5 > 0 on the bar before the last
\* and SMA5 - SMA20 > 0 on the last; equality on either bar or a NaN moving
\* average gives false
C11_Crossover ==
    (EngineDone /\ df.n >= MinBars) =>
        LET s5p  == SMA_at(df, 5, -2)
            s20p == SMA_at(df, 20, -2)
            s5   == SMA_last(df, 5)
            s20  == SMA_last(df, 20)
        IN  /\ indicators["crossover"] <=> (Gt(s20p, s5p) /\ Gt(s5, s20))
            /\ (NumEq(s20p, s5p) \/ NumEq(s5, s20)) => ~indicators["crossover"]
            /\ (IsNaN(s5p) \/ IsNaN(s20p) \/ IsNaN(s5) \/ IsNaN(s20)) =>
                    ~indicators["crossover"]

C11_Witness ==
    /\ EngineDone /\ df.n >= MinBars /\ AtC1Bar
    /\ df.c4 = F(BaseClose - 10) /\ df.c1 = F(BaseClose + 11)
    /\ indicators["crossover"]

\* df is a cut of the synthetic series whose rise is on bar `len`
SynthCut(len) == df \in SynthDfs /\ df.n - df.age = len

\* on the rise bar SMA5 is below SMA20 the bar before and above it on the bar
SynthTransition ==
    /\ Lt(SMA_at(df, 5, -2), SMA_at(df, 20, -2))
    /\ Gt(SMA_at(df, 5, -1), SMA_at(df, 20, -1))

\* C12 (as claimed): for the 22-bar synthetic series the engine reports
\* crossover = true when the series is cut at the transition bar and false
\* at every other bar
C12_Synthetic22 ==
    (EngineDone /\ SynthCut(22)) =>
        /\ AtC1Bar => SynthTransition
        /\ Get(indicators, "crossover", FALSE) <=> AtC1Bar

\* C12 (amended): for a synthetic series with at least 60 bars up to and
\* including the transition bar, the engine reports crossover = true when
\* the series is cut at the transition bar, and no crossover (false, or the
\* empty indicator set of a cut shorter than 60 bars) at every other bar
C12_SyntheticCrossover ==
    \A len \in SynthLens :
        (EngineDone /\ len >= MinBars /\ SynthCut(len)) =>
            /\ AtC1Bar => SynthTransition
            /\ Get(indicators, "crossover", FALSE) <=> AtC1Bar

C12_Witness ==
    /\ EngineDone /\ SynthCut(MinBars + 2) /\ AtC1Bar
    /\ SynthTransition
    /\ indicators["crossover"]

\* the mean of the 20 volumes before the last bar
C13_M == Rat(SumVolume(df, -21) - VolumeAt(df, -1).num, 20)

\* every volume of df is known and the last one is positive
C13_VolumesKnown == ~IsNaN(df.vlast) /\ Gt(VolumeAt(df, -1), F(0))

\* C13 (as claimed): in every engine volume_change is
\* (lastVolume / M - 1) * 100 (rounded to 2 decimals where the engine
\* rounds), M the mean of the 20 volumes before the last bar
C13_VolumeChangeWindow ==
    (EngineDone /\ df.n >= MinBars /\ C13_VolumesKnown) =>
        LET expected == PctOver(VolumeAt(df, -1), C13_M)
        IN  NumEq(indicators["volume_change"],
                  IF variant = "TW" THEN expected ELSE Round2(expected))

\* C14 (as claimed): in every record of the US / app engine vc_30 is true
\* iff the reported, rounded volume change is strictly above 30, and it is
\* false when the volume change falls back to 0.0
C14_Vc30Consistency ==
    (EngineDone /\ SignalEngine /\ df.n >= MinBars) =>
        /\ indicators["vc_30"] <=> Gt(indicators["volume_change"], F(30))
        /\ IsNaN(VolChangeUS(df)) =>
                (~indicators["vc_30"] /\ indicators["volume_change"] = F(0))

\* C16 (as claimed): the engine returns the same indicator set for the same
\* bar series whatever the date of the evaluation: the set computed is the
\* one any other clock would have given
C16_Determinism ==
    EngineDone =>
        \A e \in SeriesEnvs :
            e.pad = env.pad => indicators = Engine(variant, df, ta, e)

\* close[t] and close[t-n] are both known, close[t-n] positive
C18_Available(n) ==
    /\ df.n >= n + 1
    /\ ~IsNaN(CloseAt(df, -1))
    /\ Gt(CloseAt(df, -1 - n), F(0))

\* the return the engine reported for n days is the one claimed
C18_ReturnOk(key, n) ==
    IF C18_Available(n)
    THEN NumEq(indicators[key], PctOver(CloseAt(df, -1), CloseAt(df, -1 - n)))
    ELSE IsNaN(indicators[key])

\* C18 (as claimed): each of the 1-, 5- and 22-day returns is
\* (close[t] / close[t-n] - 1) * 100 at the last bar when both closes are
\* available, and is undefined (NaN), never 0.0, when it cannot be computed
C18_Returns ==
    (EngineDone /\ df.n >= MinBars) =>
        /\ C18_ReturnOk("day_return", 1)
        /\ C18_ReturnOk("week_return", 5)
        /\ C18_ReturnOk("month_return", 22)

\* the loop body has built the record of the instrument
RowRecorded == pc \in {"row_done", "composite_done"}

\* the loop body ran on a series that passes both gates and the engine
RowExpected ==
    /\ pc \in {"row_done", "row_skipped", "composite_done", "nothing_done"}
    /\ PhaseAfterFetch(df) = "Computing"
    /\ ~EngineRaises(variant, df, env)

\* a score that the division did not turn into NaN or an infinity
C15_Score(x) == ~IsNaN(x) /\ ~IsInf(x)

\* C15: once the composite columns are computed, a row whose Ma20 is 0 has a
\* Composite_Momentum_s that is neither NaN nor infinite, and a row whose
\* Ma60 is 0 has such a Composite_Momentum_l
C15_DivisionGuard ==
    pc = "composite_done" =>
        \A k \in DOMAIN results :
            /\ NumEq(results[k].Ma20, F(0)) =>
                   C15_Score(results[k].Composite_Momentum_s)
            /\ NumEq(results[k].Ma60, F(0)) =>
                   C15_Score(results[k].Composite_Momentum_l)

\* C17: in the runners that ask external sources, a series that passes the
\* gates always gives a record, and in it every group of fields whose own
\* source returned data is filled, whatever the other sources did
C17_IndependentSources ==
    (RowExpected /\ variant # "TW") =>
        /\ Len(results) = 1
        /\ env.info = "data" => results[1].EPS = "data"
        /\ env.revenue = "data" => results[1].Revenue = "data"
        /\ (variant = "APP" /\ env.inst = "data") =>
               results[1].Total_Net = "data"
        /\ env.tenYear.kind = "data" =>
               results[1].All_Time_High =
                   Ge(DivF(results[1].Close, env.tenYear.max), Rat(9999, 10000))

\* C19: in the runners that set All_Time_High, a series that passes the
\* gates always gives a record, and its All_Time_High is true exactly when
\* the 10-year download returned rows and close / max(close) >= 0.9999
C19_AllTimeHigh ==
    (RowExpected /\ variant # "TW") =>
        /\ Len(results) = 1
        /\ results[1].All_Time_High =
               (/\ env.tenYear.kind = "data"
                /\ Ge(DivF(CloseAt(df, -1), env.tenYear.max), Rat(9999, 10000)))

\* a record whose close is below the 10-year maximum and within the tolerance
C19_Witness ==
    /\ RowRecorded /\ variant # "TW"
    /\ env.tenYear.kind = "data"
    /\ Lt(CloseAt(df, -1), env.tenYear.max)
    /\ results[1].All_Time_High

\* the suffix has been resolved
Classified == variant # "US" /\ pc # "code_input"

\* C20: the resolved ticker is the code with ".TW" exactly when the primary
\* download returned rows, the code with ".TWO" in every other case, and no
\* exception has left the function
C20_ExchangeSuffix ==
    Classified =>
        /\ (tickers[1] = StockCode \o <<".", "T", "W">>)
               <=> (env.primary = "data")
        /\ (tickers[1] = StockCode \o <<".", "T", "W", "O">>)
               <=> (env.primary \in {"raise", "empty"})
        /\ ~raised

\* an empty primary download resolved to .TWO
C20_Witness ==
    /\ Classified
    /\ env.primary = "empty"
    /\ tickers[1] = StockCode \o <<".", "T", "W", "O">>

\* C28: no dict the engine returns has short_uptrend_momentum and
\* short_downtrend_signal both true
C28_SignalExclusivity ==
    EngineDone =>
        ~(/\ Get(indicators, "short_uptrend_momentum", FALSE)
          /\ Get(indicators, "short_downtrend_signal", FALSE))

\* the downtrend signal is true on a series whose RSI14, a condition of the
\* uptrend signal alone, is above 50
C28_Witness ==
    /\ EngineDone /\ SignalEngine /\ df.n >= MinBars
    /\ indicators["short_downtrend_signal"]
    /\ ~indicators["short_uptrend_momentum"]
    /\ Gt(ta.rsi14, F(50))

\* C22: in app.process_stock_data the fetch window is bound whenever the
\* loop over a list that is not empty is reached, and no ticker ends without its fetch having run
C22_FetchWindowDefined ==
    (variant = "APP" /\ pc \in {"loop", "fetching", "fetched"}
                     /\ tickers # <<>>) =>
        /\ window = "defined"
        /\ \A j \in 1..Len(tickers) :
               phase[j] \in Terminal => log[j].fetch # "none"

\* C21: a resolved Taiwan ticker cleans to its bare code, is a code the
\* batch sources are asked for, and its record carries the institutional
\* and the revenue entry whenever the batch has one for the code
C21_SuffixStripping ==
    (variant = "APP" /\ pc # "code_input") =>
        /\ clean_code(tickers[1]) = StockCode
        /\ IsTaiwanCode(tickers[1])
        /\ RowRecorded =>
               /\ env.inst = "data" => results[1].Total_Net = "data"
               /\ env.revenue = "data" => results[1].Revenue = "data"

\* the uploaded code is a 4-digit numeric code
ProbeFourDigit ==
    IsDigit(StrStrip(local.raw)) /\ Len(StrStrip(local.raw)) = 4

\* the m-th download of the probe returned at least 60 bars
ProbeQualified(m) ==
    ~local.tried[m].out.raises /\ local.tried[m].out.n >= MinBars

C24_Earlier == 2..Len(local.queried)

\* what holds of the fallback at every moment
C24_Fallback ==
    (pc \in {"fallback", "build", "inst_returned"}) =>
        LET q == local.queried
        IN  /\ \A m \in C24_Earlier :
                /\ q[m].day < q[m - 1].day
                /\ q[m].day % 7 \in 0..4
                /\ q[1].day - q[m].day <= 15
            /\ \A m \in 1..(Len(q) - 1) : q[m].data = "none"
            /\ pc = "inst_returned" =>
                IF q[Len(q)].data = "none"
                THEN /\ local.result.codes = {}
                     /\ \A d \in (q[1].day - 15)..(q[1].day - 1) :
                            d % 7 \in 0..4 => \E m \in C24_Earlier : q[m].day = d
                ELSE /\ local.result.from = q[Len(q)].day
                     /\ local.result.codes =
                            IF q[Len(q)].data = "with" THEN {StockCode} ELSE {}

\* C24: the earlier dates are asked for in decreasing order, weekdays only,
\* at most 15 days back, none after the first with data, the result is of
\* that date or empty when no date had data; and the call returns
C24_DateFallback == []C24_Fallback /\ <>(pc = "inst_returned")

\* the requested date and three earlier weekdays had no data, the fourth had
C24_Witness ==
    /\ pc = "inst_returned"
    /\ Len(local.queried) = 5
    /\ local.queried[5].data = "with"
    /\ local.result.codes = {StockCode}

TimesFailed(t) ==
    Cardinality({j \in 1..Len(local.failed) : local.failed[j] = t})

\* C26: when a scanner has returned, every input ticker is either a column
\* of data_dict or once in failed_tickers, never both, never neither
C26_TickerAccounting ==
    pc = "scan_returned" =>
        \A j \in 1..Len(local.tickers) :
            LET t == local.tickers[j]
            IN  \/ t \in local.data_dict /\ TimesFailed(t) = 0
                \/ t \notin local.data_dict /\ TimesFailed(t) = 1

\* C27: in the sector scanner a ticker the batch gave no column for is
\* downloaded alone at least once and at most three times before it is in
\* failed_tickers, and not again after a download that succeeded
C27_Retry ==
    (local.scanner = "sector"
        /\ pc \in {"ticker", "retry", "scan_build", "scan_returned"}) =>
        \A j \in 1..Len(local.tickers) :
            LET t == local.tickers[j]
            IN  /\ local.attempts[t] <= MaxRetries
                /\ TimesFailed(t) > 0 => local.attempts[t] \in 1..MaxRetries
                /\ (t \in local.data_dict /\ local.batch_seen[t] # "ok")
                       => (j = local.k => local.success \/ pc # "retry")

\* logged_in of a session, FALSE while the key is not set
LoggedIn(session) ==
    "logged_in" \in DOMAIN session /\ session.logged_in

\* the step draws the analysis page
DrawsMain == local.view # "main" /\ local'.view = "main"

\* the step is the body of logout()
LogsOut == pc = "sidebar" /\ local.event.kind = "logout"

\* C29: the analysis page is drawn only in a run whose logged_in is true;
\* logged_in becomes true only by a submission whose (username, password)
\* is an entry of USERS, and username is then that user; logout leaves
\* logged_in false and username empty
C29_LoginGate ==
    [][ /\ DrawsMain => LoggedIn(local.session) /\ LoggedIn(local'.session)
        /\ (~LoggedIn(local.session) /\ LoggedIn(local'.session)) =>
              /\ local.event.kind = "submit"
              /\ local.event.username \in DOMAIN USERS
              /\ USERS[local.event.username] = local.event.password
              /\ local'.session.username = local.event.username
        /\ LogsOut => /\ local'.session.logged_in = FALSE
                      /\ local'.session.username = "" ]_vars

\* a user who logged in with an entry of USERS sees the analysis page
C29_Witness ==
    /\ local.view = "main"
    /\ pc = "page_idle"
    /\ local.session.logged_in
    /\ local.session.username = "vivian"

====
